---------------------------- MODULE Spec2Model ----------------------------
(***************************************************************************)
(* A model of the BIDS validator: the path grammar (utils/type.js), the    *)
(* validation pipeline BIDS.start / quickTest / fullTest / formatIssues /  *)
(* groupModalities, and the shared BIDS.options / BIDS.issues singleton.   *)
(*                                                                         *)
(* Strings.  TLC cannot look inside a string, so a path is a sequence of   *)
(* atoms: the single characters "/", "_", "." and "x", the key prefixes    *)
(* "sub-", "ses-", "task-", ... and alphanumeric words ("01", "anat",      *)
(* "T1w", ...).  The path /sub-01/anat/sub-01_T1w.nii is                   *)
(*   << "/","sub-","01","/","anat","/","sub-","01","_","T1w",".","nii" >>. *)
(* The regular expressions of type.js are transcribed node for node and    *)
(* run by a backtracking matcher with JavaScript's semantics (greedy       *)
(* quantifiers, first match wins, a backreference to a group that did not  *)
(* take part matches the empty string, "." matches any one character).     *)
(***************************************************************************)
EXTENDS Integers, Sequences, FiniteSets, Bags, TLC

VARIABLES
    options,     \* BIDS.options: the options of the latest start()
    issues,      \* BIDS.issues: the one issue list all runs append to
    issueTable,  \* utils.issues: per issue code, the files list formatIssues attaches
    run,         \* per start() invocation: its position and the locals of its closures
    mode,        \* which inputs this behaviour draws: "runs", "seq", "run", "type", "group"
                 \* or "read"
    tPath,       \* the path handed to the predicates of utils/type.js
    tCls,        \* what the predicates (and quickTest) answered for tPath
    gIn,         \* the modality list handed to groupModalities
    gOut,        \* the list groupModalities returned
    promise,     \* per readFile() call: the promise it returned and where its read stands
    nextTick     \* the callbacks handed to process.nextTick, in the order they will run

vars == <<options, issues, issueTable, run, mode, tPath, tCls, gIn, gOut, promise, nextTick>>

\* an optional value: <<>> while there is none, <<v>> once there is
Unset == <<>>
Some(v) == <<v>>

\* readFile has not been called
NoReads ==
    /\ promise = <<>>
    /\ nextTick = <<>>

-----------------------------------------------------------------------------
(* Atoms *)

\* atoms that are exactly one character long: what the regex "." can match
Char1 == {"/", "_", ".", "x"}

\* atoms made of decimal digits only: what [0-9]+ is built from
Digits == {"01", "02", "1"}

\* atoms made of letters and digits only: what [a-zA-Z0-9]+ is built from
Alnum == Digits \cup
    {"x", "a", "b", "anat", "func", "dwi", "fmap", "beh", "code", "derivatives",
     "git", "nii", "gz", "json", "tsv", "bval", "bvec", "bak", "README",
     "participants", "T1w", "T2w", "bold", "sbref", "events", "physio", "stim",
     "scans", "sessions", "epi", "phasediff", "phase1", "phase2",
     "magnitude1", "magnitude2", "magnitude", "fieldmap"}

-----------------------------------------------------------------------------
(* Regular expressions: constructors of the nodes *)

Lit(s)    == [t |-> "lit", s |-> s]          \* the literal text s
AnyCh     == [t |-> "any"]                   \* .
Plus(cls) == [t |-> "plus", cls |-> cls]     \* [cls]+
DotStar   == [t |-> "dotstar"]               \* .*
Opt(rs)   == [t |-> "opt", rs |-> rs]        \* (?:rs)?
Grp(n,rs) == [t |-> "grp", n |-> n, rs |-> rs]   \* (rs), the n-th capture group
Ref(n)    == [t |-> "ref", n |-> n]          \* \n
Alt(alts) == [t |-> "alt", alts |-> alts]    \* (?:a|b|...), each a sequence of nodes

NoCaps == [n \in 1..4 |-> [def |-> FALSE, v |-> <<>>]]
NoMatch == [ok |-> FALSE, caps |-> NoCaps]

\* does s hold the text lit at position i
StartsAt(s, i, lit) ==
    /\ i + Len(lit) - 1 <= Len(s)
    /\ \A k \in 1..Len(lit) : s[i + k - 1] = lit[k]

\* the length of the longest run of atoms of cls in s from position i
RECURSIVE RunLen(_, _, _)
RunLen(s, i, cls) ==
    IF i <= Len(s) /\ s[i] \in cls THEN 1 + RunLen(s, i + 1, cls) ELSE 0

(***************************************************************************)
(* RegExp.prototype.exec for a pattern anchored with ^ and $: Match(rs, s, *)
(* i, c) matches the nodes rs against s from position i with the captures  *)
(* c, and yields the first match in backtracking order.                    *)
(***************************************************************************)
RECURSIVE Match(_, _, _, _), TryRun(_, _, _, _, _, _), TryAlt(_, _, _, _, _)
Match(rs, s, i, c) ==
    IF Len(rs) = 0 THEN [ok |-> (i = Len(s) + 1), caps |-> c]
    ELSE LET h == Head(rs)
             r == Tail(rs)
         IN CASE h.t = "lit" ->
                   IF StartsAt(s, i, h.s) THEN Match(r, s, i + Len(h.s), c) ELSE NoMatch
              [] h.t = "any" ->
                   IF i <= Len(s) /\ s[i] \in Char1 THEN Match(r, s, i + 1, c) ELSE NoMatch
              [] h.t = "plus" -> TryRun(r, s, i, c, RunLen(s, i, h.cls), 1)
              [] h.t = "dotstar" -> TryRun(r, s, i, c, Len(s) + 1 - i, 0)
              [] h.t = "opt" ->
                   LET a == Match(h.rs \o r, s, i, c)
                   IN IF a.ok THEN a ELSE Match(r, s, i, c)
              [] h.t = "grp" ->
                   Match(h.rs \o <<[t |-> "end", n |-> h.n, from |-> i]>> \o r, s, i, c)
              [] h.t = "end" ->
                   Match(r, s, i, [c EXCEPT ![h.n] = [def |-> TRUE, v |-> SubSeq(s, h.from, i - 1)]])
              [] h.t = "ref" ->
                   LET v == IF c[h.n].def THEN c[h.n].v ELSE <<>>
                   IN IF StartsAt(s, i, v) THEN Match(r, s, i + Len(v), c) ELSE NoMatch
              [] h.t = "alt" -> TryAlt(h.alts, r, s, i, c)

\* a greedy quantifier: take k atoms, then k-1, ... down to min
TryRun(r, s, i, c, k, min) ==
    IF k < min THEN NoMatch
    ELSE LET a == Match(r, s, i + k, c)
         IN IF a.ok THEN a ELSE TryRun(r, s, i, c, k - 1, min)

\* an alternation: the alternatives in order
TryAlt(alts, r, s, i, c) ==
    IF Len(alts) = 0 THEN NoMatch
    ELSE LET a == Match(Head(alts) \o r, s, i, c)
         IN IF a.ok THEN a ELSE TryAlt(Tail(alts), r, s, i, c)

\* expression.exec(path), and expression.test(path)
Exec(expression, path) == Match(expression, path, 1, NoCaps)
Test(expression, path) == Exec(expression, path).ok

-----------------------------------------------------------------------------
(* utils/type.js *)

\* shorthand for the pieces all the expressions of type.js share
Label == Plus(Alnum)                                  \* [a-zA-Z0-9]+
Index == Plus(Digits)                                 \* [0-9]+
Tag(key) == Opt(<<Lit(<<"_", key>>), Label>>)         \* (?:_key-[a-zA-Z0-9]+)?
SubDir == <<Lit(<<"/">>), Grp(1, <<Lit(<<"sub-">>), Label>>)>>          \* ^\/(sub-[a-zA-Z0-9]+)
SesDir == <<Lit(<<"/">>), Opt(<<Grp(2, <<Lit(<<"ses-">>), Label>>), Lit(<<"/">>)>>)>>
                                                      \* \/(?:(ses-[a-zA-Z0-9]+)\/)?
SubSes == <<Ref(1), Opt(<<Grp(3, <<Lit(<<"_">>), Ref(2)>>)>>)>>         \* \1(_\2)?
AcqRec == <<Tag("acq-"), Tag("rec-")>>
Run    == Opt(<<Lit(<<"_", "run-">>), Index>>)        \* (?:_run-[0-9]+)?
Words(ws) == Alt([k \in 1..Len(ws) |-> <<Lit(<<ws[k]>>)>>])

anatSuffixes == <<"T1w", "T2w", "T1map", "T2map", "FLAIR", "PD", "PDT2", "inplaneT1",
                  "inplaneT2", "angio", "defacemask", "SWImagandphase">>

fixedTopLevelNames ==
    { <<"/", "README">>, <<"/", "CHANGES">>,
      <<"/", "dataset", "_", "description", ".", "json">>,
      <<"/", "participants", ".", "tsv">>, <<"/", "phasediff", ".", "json">>,
      <<"/", "phase1", ".", "json">>, <<"/", "phase2", ".", "json">>,
      <<"/", "fieldmap", ".", "json">> }

\* (_bold.json|_events.tsv|_physio.json|_stim.json)
funcSidecars ==
    Alt(<< <<Lit(<<"_", "bold">>), AnyCh, Lit(<<"json">>)>>,
           <<Lit(<<"_", "events">>), AnyCh, Lit(<<"tsv">>)>>,
           <<Lit(<<"_", "physio">>), AnyCh, Lit(<<"json">>)>>,
           <<Lit(<<"_", "stim">>), AnyCh, Lit(<<"json">>)>> >>)

\* (?:_physio.tsv.gz|_stim.tsv.gz|_physio.json|_stim.json)
contEndings ==
    << <<Lit(<<"_", "physio">>), AnyCh, Lit(<<"tsv">>), AnyCh, Lit(<<"gz">>)>>,
       <<Lit(<<"_", "stim">>), AnyCh, Lit(<<"tsv">>), AnyCh, Lit(<<"gz">>)>>,
       <<Lit(<<"_", "physio">>), AnyCh, Lit(<<"json">>)>>,
       <<Lit(<<"_", "stim">>), AnyCh, Lit(<<"json">>)>> >>

\* (nii.gz|nii|json)
imageExt == << <<Lit(<<"nii">>), AnyCh, Lit(<<"gz">>)>>, <<Lit(<<"nii">>)>>, <<Lit(<<"json">>)>> >>

funcTopRe ==
    <<Lit(<<"/">>), Opt(<<Lit(<<"ses-">>), Label, Lit(<<"_">>)>>), Lit(<<"task-">>), Label>>
    \o AcqRec \o <<Run, Grp(1, <<funcSidecars>>)>>

anatTopRe ==
    <<Lit(<<"/">>), Opt(<<Lit(<<"ses-">>), Label, Lit(<<"_">>)>>)>> \o AcqRec
    \o <<Opt(<<Lit(<<"_", "run-">>), Index, Lit(<<"_">>)>>),
         Grp(1, <<Words(anatSuffixes)>>), AnyCh, Lit(<<"json">>)>>

dwiTopRe ==
    <<Lit(<<"/">>), Opt(<<Lit(<<"ses-">>), Label>>)>> \o AcqRec
    \o <<Run, Opt(<<Lit(<<"_">>)>>), Lit(<<"dwi">>), AnyCh, Words(<<"json", "bval", "bvec">>)>>

multiDirFieldmapRe ==
    <<Lit(<<"/">>), Lit(<<"dir-">>), Index, Lit(<<"_", "epi">>), AnyCh, Lit(<<"json">>)>>

isTopLevel(path) ==
    \/ path \in fixedTopLevelNames
    \/ Test(funcTopRe, path)
    \/ Test(dwiTopRe, path)
    \/ Test(anatTopRe, path)
    \/ Test(multiDirFieldmapRe, path)

codeOrDerivativesRe ==
    <<Lit(<<"/">>), Words(<<"code", "derivatives">>), Lit(<<"/">>), DotStar>>

isCodeOrDerivatives(path) == Test(codeOrDerivativesRe, path)

versionControlRe == <<Lit(<<"/">>), Lit(<<".", "git">>), Lit(<<"/">>), DotStar>>

isVersionControl(path) == Test(versionControlRe, path)

\* conditionalMatch without the test of the captured groups: any match is accepted
conditionalMatchAnyMatch(expression, path) == Exec(expression, path).ok

\* function conditionalMatch (expression, path)
conditionalMatch(expression, path) ==
    LET match == Exec(expression, path)
        truthy(n) == match.caps[n].def /\ match.caps[n].v # <<>>
    IN  /\ match.ok
        /\ (truthy(2) /\ truthy(3)) \/ ~truthy(2)

scansRe ==
    SubDir \o SesDir \o SubSes \o <<Lit(<<"_", "scans">>), AnyCh, Lit(<<"tsv">>)>>

funcSesRe ==
    SubDir \o SesDir \o SubSes \o <<Lit(<<"task-">>), Label>> \o AcqRec
    \o <<Run, Grp(4, <<funcSidecars>>)>>

anatSesRe ==
    SubDir \o SesDir \o SubSes \o AcqRec
    \o <<Opt(<<Lit(<<"_", "run-">>), Index, Lit(<<"_">>)>>),
         Grp(4, <<Words(anatSuffixes)>>), AnyCh, Lit(<<"json">>)>>

dwiSesRe ==
    SubDir \o SesDir \o SubSes \o AcqRec
    \o <<Run, Opt(<<Lit(<<"_">>)>>), Lit(<<"dwi">>), AnyCh, Words(<<"json", "bval", "bvec">>)>>

isSessionLevel(path) ==
    \/ conditionalMatch(scansRe, path)
    \/ conditionalMatch(funcSesRe, path)
    \/ conditionalMatch(anatSesRe, path)
    \/ conditionalMatch(dwiSesRe, path)

sessionsRe ==
    SubDir \o <<Lit(<<"/">>), Ref(1), Lit(<<"_", "sessions">>), AnyCh, Lit(<<"tsv">>)>>

isSubjectLevel(path) == Test(sessionsRe, path)

anatRe ==
    SubDir \o SesDir \o <<Lit(<<"anat", "/">>)>> \o SubSes \o AcqRec
    \o <<Run, Lit(<<"_">>), Words(anatSuffixes), AnyCh, Grp(4, <<Alt(imageExt)>>)>>

isAnat(path) == conditionalMatch(anatRe, path)

dwiRe ==
    SubDir \o SesDir \o <<Lit(<<"dwi", "/">>)>> \o SubSes \o AcqRec
    \o <<Run, Lit(<<"_">>), Words(<<"dwi", "sbref">>), AnyCh,
         Grp(4, <<Alt(imageExt \o << <<Lit(<<"bvec">>)>>, <<Lit(<<"bval">>)>> >>)>>)>>

isDWI(path) == conditionalMatch(dwiRe, path)

fieldMapRe ==
    SubDir \o SesDir \o <<Lit(<<"fmap", "/">>)>> \o SubSes \o AcqRec
    \o <<Opt(<<Lit(<<"_", "dir-">>), Index>>), Run, Lit(<<"_">>),
         Words(<<"phasediff", "phase1", "phase2", "magnitude1", "magnitude2",
                 "fieldmap", "epi">>),
         AnyCh, Grp(4, <<Alt(imageExt)>>)>>

isFieldMap(path) == conditionalMatch(fieldMapRe, path)

\* _task-[a-zA-Z0-9]+(?:_acq-[a-zA-Z0-9]+)?(?:_rec-[a-zA-Z0-9]+)?(?:_run-[0-9]+)?
TaskTags == <<Lit(<<"_", "task-">>), Label>> \o AcqRec \o <<Run>>

funcRe ==
    SubDir \o SesDir \o <<Lit(<<"func", "/">>)>> \o SubSes \o TaskTags
    \o <<Alt(<< <<Lit(<<"_", "bold">>), AnyCh, Lit(<<"nii">>), AnyCh, Lit(<<"gz">>)>>,
                <<Lit(<<"_", "bold">>), AnyCh, Lit(<<"nii">>)>>,
                <<Lit(<<"_", "bold">>), AnyCh, Lit(<<"json">>)>>,
                <<Lit(<<"_", "sbref">>), AnyCh, Lit(<<"nii">>), AnyCh, Lit(<<"gz">>)>>,
                <<Lit(<<"_", "sbref">>), AnyCh, Lit(<<"json">>)>>,
                <<Lit(<<"_", "events">>), AnyCh, Lit(<<"tsv">>)>> >>
             \o contEndings)>>

isFunc(path) == conditionalMatch(funcRe, path)

funcBeh ==
    SubDir \o SesDir \o <<Lit(<<"beh", "/">>)>> \o SubSes \o TaskTags
    \o <<Alt(<< <<Lit(<<"_", "beh">>), AnyCh, Lit(<<"json">>)>>,
                <<Lit(<<"_", "events">>), AnyCh, Lit(<<"tsv">>)>> >>
             \o contEndings)>>

isBehavioral(path) == conditionalMatch(funcBeh, path)

funcBoldRe ==
    SubDir \o SesDir \o <<Lit(<<"func", "/">>)>> \o SubSes \o TaskTags
    \o <<Alt(<< <<Lit(<<"_", "bold">>), AnyCh, Lit(<<"nii">>), AnyCh, Lit(<<"gz">>)>>,
                <<Lit(<<"_", "bold">>), AnyCh, Lit(<<"nii">>)>>,
                <<Lit(<<"_", "sbref">>), AnyCh, Lit(<<"nii">>), AnyCh, Lit(<<"gz">>)>>,
                <<Lit(<<"_", "sbref">>), AnyCh, Lit(<<"nii">>)>> >>)>>

isFuncBold(path) == conditionalMatch(funcBoldRe, path)

contRe ==
    SubDir \o SesDir \o <<Words(<<"func", "beh">>), Lit(<<"/">>)>> \o SubSes \o TaskTags
    \o <<Tag("recording-"), Alt(contEndings)>>

isCont(path) == conditionalMatch(contRe, path)

isBIDS(path) ==
    \/ isTopLevel(path)
    \/ isCodeOrDerivatives(path)
    \/ isSessionLevel(path)
    \/ isSubjectLevel(path)
    \/ isAnat(path)
    \/ isDWI(path)
    \/ isFunc(path)
    \/ isBehavioral(path)
    \/ isCont(path)
    \/ isFieldMap(path)
    \/ isVersionControl(path)

-----------------------------------------------------------------------------
(* String operations of JavaScript, on sequences of atoms *)

\* s.endsWith(suffix)
EndsWith(s, suffix) ==
    /\ Len(suffix) <= Len(s)
    /\ SubSeq(s, Len(s) - Len(suffix) + 1, Len(s)) = suffix

\* s.includes(part)
Includes(s, part) == \E i \in 1..(Len(s) + 1) : StartsAt(s, i, part)

\* s.indexOf(atom), counted from 1; 0 when s does not hold it (JavaScript's -1)
RECURSIVE IndexFrom(_, _, _)
IndexFrom(s, a, i) ==
    IF i > Len(s) THEN 0 ELSE IF s[i] = a THEN i ELSE IndexFrom(s, a, i + 1)
IndexOf(s, a) == IndexFrom(s, a, 1)

\* s.split(sep): the sequence of the pieces of s between the separators
RECURSIVE Split(_, _)
Split(s, sep) ==
    LET k == IndexOf(s, sep)
    IN IF k = 0 THEN <<s>>
       ELSE <<SubSeq(s, 1, k - 1)>> \o Split(SubSeq(s, k + 1, Len(s)), sep)

\* array.reverse()
Reverse(a) == [k \in 1..Len(a) |-> a[Len(a) + 1 - k]]

\* array[k] with JavaScript's index k (from 0); the empty string stands for undefined
At(a, k) == IF k + 1 <= Len(a) THEN a[k + 1] ELSE <<>>

\* the file name of a path: what follows the last "/"
BaseName(path) == LET parts == Split(path, "/") IN parts[Len(parts)]

\* utils.files.relativePath(file): the path of the file from the dataset's root
relativePath(file) == file.relativePath

-----------------------------------------------------------------------------
(* BIDS.quickTest *)

\* the condition of the if statement quickTest applies to one file
quickTestFile(file) ==
    LET path == relativePath(file)
        parts == Split(path, "/")
        rev == Reverse(parts)
    IN  /\ path # <<>>
        /\ At(parts, 1) # <<"derivatives">>
        /\ Includes(At(rev, 0), <<".", "nii">>)
        /\ At(rev, 1) \in {<<"anat">>, <<"func">>, <<"dwi">>}
        /\ \/ At(rev, 2) # <<>> /\ At(rev, 2)[1] = "ses-"
           \/ At(rev, 2) # <<>> /\ At(rev, 2)[1] = "sub-"

\* the for loop of quickTest from file k on: couldBeBIDS when it ends
RECURSIVE quickTestFrom(_, _)
quickTestFrom(fileList, k) ==
    IF k > Len(fileList) THEN FALSE
    ELSE IF quickTestFile(fileList[k]) THEN TRUE
    ELSE quickTestFrom(fileList, k + 1)

quickTest(fileList) == quickTestFrom(fileList, 1)

-----------------------------------------------------------------------------
(* The paths the predicates are applied to *)

\* how many subject and session labels the file names draw from
NLabels == 2

LabelNames == <<"01", "02", "1", "a", "b">>
Labels == {LabelNames[k] : k \in 1..NLabels}

\* the directory part of a path
TDirs ==
    { <<>>, <<"/", "derivatives">>, <<"/", "code">>, <<"/", ".", "git">>,
      <<"/", "sub-", "01">>, <<"/", "sub-", "01", "/", "ses-", "01">>,
      <<"/", "ses-", "01", "/", "anat">>,
      <<"/", "derivatives", "/", "sub-", "01", "/", "anat">>,
      <<"/", "derivatives", "/", "sub-", "01", "/", "ses-", "01", "/", "anat">>,
      <<"/", "code", "/", "sub-", "01", "/", "ses-", "01", "/", "func">> }
    \cup { <<"/", "sub-", "01", "/", m>> : m \in {"anat", "func", "beh", "dwi", "fmap"} }
    \cup { <<"/", "sub-", "01", "/", "ses-", "01", "/", m>> :
             m \in {"anat", "func", "beh", "dwi", "fmap"} }

\* the pieces of a file name: subject, session, task, suffix, extension
TSub == {<<>>} \cup { <<"sub-", l>> : l \in Labels }
TSes == {<<>>, <<"_">>} \cup { <<"_", "ses-", l>> : l \in Labels }
TTask == {<<>>, <<"_", "task-", "a">>, <<"task-", "a">>}
TSuffix == { <<"_", w>> : w \in {"T1w", "bold", "physio", "dwi", "scans", "sessions",
                                 "events", "epi"} }
TExt == { <<".", "nii", ".", "gz">>, <<".", "nii">>, <<".", "json">>, <<".", "tsv">>,
          <<".", "tsv", ".", "gz">>, <<".", "bval">>, <<"x", "nii">>,
          <<".", "nii", ".", "bak">> }

TPaths ==
    { d \o <<"/">> \o a \o b \o c \o e \o f :
        d \in TDirs, a \in TSub, b \in TSes, c \in TTask, e \in TSuffix, f \in TExt }

\* every predicate of type.js, and quickTest on the one-file list, for one path
Classify(path) ==
    [ isBIDS |-> isBIDS(path),
      isTopLevel |-> isTopLevel(path),
      isCodeOrDerivatives |-> isCodeOrDerivatives(path),
      isVersionControl |-> isVersionControl(path),
      isSessionLevel |-> isSessionLevel(path),
      isSubjectLevel |-> isSubjectLevel(path),
      isAnat |-> isAnat(path),
      isDWI |-> isDWI(path),
      isFunc |-> isFunc(path),
      isBehavioral |-> isBehavioral(path),
      isCont |-> isCont(path),
      isFieldMap |-> isFieldMap(path),
      quickTest |-> quickTest(<<[relativePath |-> path]>>) ]

\* the variables of the validation runs, idle
NoRuns ==
    /\ options = [ignoreWarnings |-> FALSE, ignoreNiftiHeaders |-> FALSE]
    /\ issues = <<>>
    /\ issueTable = <<>>
    /\ run = <<>>

InitType ==
    /\ mode = "type"
    /\ tPath \in TPaths
    /\ tCls = Unset
    /\ gIn = <<>>
    /\ gOut = Unset
    /\ NoRuns
    /\ NoReads

ClassifyPath ==
    /\ mode = "type"
    /\ tCls = Unset
    /\ tCls' = Some(Classify(tPath))
    /\ UNCHANGED <<options, issues, issueTable, run, mode, tPath, gIn, gOut, promise, nextTick>>

NextType == ClassifyPath

SpecType == InitType /\ [][NextType]_vars

-----------------------------------------------------------------------------
(* BIDS.groupModalities *)

modalityGroups ==
    << [groupSet |-> <<"magnitude1", "magnitude2", "phase1", "phase2">>, groupName |-> "fieldmap"],
       [groupSet |-> <<"magnitude1", "magnitude2", "phasediff">>, groupName |-> "fieldmap"],
       [groupSet |-> <<"magnitude", "fieldmap">>, groupName |-> "fieldmap"],
       [groupSet |-> <<"epi">>, groupName |-> "fieldmap"] >>

\* array.splice(array.indexOf(x), 1), given k = indexOf(x) counted from 1 (0: not
\* found, JavaScript's -1, which makes splice remove the last element)
Splice1(array, k) ==
    IF k = 0 THEN SubSeq(array, 1, Len(array) - 1)
    ELSE SubSeq(array, 1, k - 1) \o SubSeq(array, k + 1, Len(array))

\* the inner loop: for (var j = 0; j < groupSet.length; j++) splice
RECURSIVE spliceGroup(_, _, _)
spliceGroup(modalities, groupSet, j) ==
    IF j > Len(groupSet) THEN modalities
    ELSE spliceGroup(Splice1(modalities, IndexOf(modalities, groupSet[j])), groupSet, j + 1)

\* groupStep that adds the group's name and leaves the matched tokens in the list
groupStepKeepTokens(modalities, group) ==
    LET match == \A i \in 1..Len(group.groupSet) : IndexOf(modalities, group.groupSet[i]) # 0
    IN IF match THEN Append(modalities, group.groupName) ELSE modalities

\* the body of the outer loop for one group
groupStep(modalities, group) ==
    LET match == \A i \in 1..Len(group.groupSet) : IndexOf(modalities, group.groupSet[i]) # 0
    IN IF match THEN spliceGroup(Append(modalities, group.groupName), group.groupSet, 1)
       ELSE modalities

\* the outer loop: for (var groupTouple_i in modalityGroups)
RECURSIVE groupFrom(_, _)
groupFrom(modalities, g) ==
    IF g > Len(modalityGroups) THEN modalities
    ELSE groupFrom(groupStep(modalities, modalityGroups[g]), g + 1)

groupModalities(modalities) == groupFrom(modalities, 1)

\* the modality tokens the lists are drawn from, and how long a list may be
MaxModalities == 5
ModalityTokens ==
    {"magnitude1", "magnitude2", "phase1", "phase2", "phasediff", "magnitude",
     "fieldmap", "epi", "bold"}

\* summary.modalities holds no token twice (fullTest pushes a suffix only if absent)
ModalityLists ==
    UNION { { m \in [1..n -> ModalityTokens] : \A i, j \in 1..n : i # j => m[i] # m[j] } :
            n \in 0..MaxModalities }

InitGroup ==
    /\ mode = "group"
    /\ gIn \in ModalityLists
    /\ gOut = Unset
    /\ tPath = <<>>
    /\ tCls = Unset
    /\ NoRuns
    /\ NoReads

GroupList ==
    /\ mode = "group"
    /\ gOut = Unset
    /\ gOut' = Some(groupModalities(gIn))
    /\ UNCHANGED <<options, issues, issueTable, run, mode, tPath, tCls, gIn, promise, nextTick>>

NextGroup == GroupList

SpecGroup == InitGroup /\ [][NextGroup]_vars

-----------------------------------------------------------------------------
(* Files, issues and the collaborators of the pipeline *)

\* a session directory without the session in the file name: no valid path
ExInvalid ==
    <<"/", "sub-", "01", "/", "ses-", "01", "/", "anat", "/",
      "sub-", "01", "_", "T1w", ".", "nii", ".", "gz">>

\* the text of a sequence of atoms
RECURSIVE Join(_)
Join(s) == IF s = <<>> THEN "" ELSE Head(s) \o Join(Tail(s))

\* new utils.Issue({file: file, code: code})
Issue(code, file) == [code |-> code, file |-> file.relativePath]

(***************************************************************************)
(* A file of a dataset: its relative path, its size, and what the          *)
(* collaborators answer for it: found, the issue codes its content         *)
(* validator (TSV, json, bval, bvec or NIFTI) calls back with; header,     *)
(* whether readNiftiHeader can read it; jsObj, the TaskName of the object  *)
(* json parses; hf and ses, the issue codes headerFields and session       *)
(* report for it.                                                          *)
(***************************************************************************)
File(path, found, header, task, hf, ses) ==
    [relativePath |-> path, size |-> 1, found |-> found, header |-> header,
     jsObj |-> task, hf |-> hf, ses |-> ses]

fileName(file) == BaseName(file.relativePath)

Catalogue ==
    << File(<<"/", "README">>, <<>>, "ok", Unset, <<>>, <<>>),
       File(<<"/", "derivatives", "/", "sub-", "01", "/", "anat", "/",
              "sub-", "01", "_", "T1w", ".", "nii", ".", "gz">>,
            <<13>>, "ok", Unset, <<>>, <<>>),
       File(ExInvalid, <<>>, "ok", Unset, <<>>, <<38>>),
       File(<<"/", "sub-", "01", "/", "anat", "/", "sub-", "01", "_", "T1w", ".", "nii", ".", "gz">>,
            <<>>, "ok", Unset, <<39>>, <<>>),
       File(<<"/", "sub-", "01", "/", "dwi", "/", "sub-", "01", "_", "dwi", ".", "bval">>,
            <<>>, "ok", Unset, <<>>, <<>>),
       File(<<"/", "sub-", "01", "/", "dwi", "/", "sub-", "01", "_", "dwi", ".", "bvec">>,
            <<55>>, "ok", Unset, <<>>, <<>>),
       File(<<"/", "sub-", "01", "/", "fmap", "/", "sub-", "01", "_", "epi", ".", "nii">>,
            <<6>>, "ok", Unset, <<>>, <<>>),
       File(<<"/", "sub-", "01", "/", "func", "/",
              "sub-", "01", "_", "task-", "a", "_", "bold", ".", "json">>,
            <<13>>, "ok", Some([TaskName |-> "a"]), <<>>, <<>>),
       File(<<"/", "sub-", "01", "/", "func", "/",
              "sub-", "01", "_", "task-", "a", "_", "bold", ".", "nii", ".", "gz">>,
            <<6, 55>>, "error", Unset, <<>>, <<>>),
       File(<<"/", "sub-", "01", "/", "func", "/",
              "sub-", "01", "_", "task-", "a", "_", "events", ".", "tsv">>,
            <<55>>, "ok", Unset, <<>>, <<>>),
       File(<<"/", "code", "/", "x", ".", "json">>, <<13>>, "ok", Unset, <<>>, <<>>) >>

\* utils.issues: the severity of each issue code
severity(code) == IF code \in {6, 7, 8, 9, 13, 38, 39} THEN "warning" ELSE "error"

AllCodes == {1, 6, 13, 26, 38, 39, 55}

\* what a content validator calls back with for a file
found(file) == [k \in 1..Len(file.found) |-> Issue(file.found[k], file)]

\* readNiftiHeader's answer for a file that cannot be read: {error: Issue}
headerError(file) == Issue(26, file)

\* flatten a sequence of sequences
RECURSIVE Flatten(_)
Flatten(ss) == IF ss = <<>> THEN <<>> ELSE Head(ss) \o Flatten(Tail(ss))

\* headerFields(headers): the issues of the header-field cross-validator
headerFields(headers) ==
    Flatten([k \in 1..Len(headers) |->
               [j \in 1..Len(headers[k][1].hf) |-> Issue(headers[k][1].hf[j], headers[k][1])]])

\* session(fileList): the issues of the session cross-validator
session(fileList) ==
    Flatten([k \in 1..Len(fileList) |->
               [j \in 1..Len(fileList[k].ses) |-> Issue(fileList[k].ses[j], fileList[k])]])

-----------------------------------------------------------------------------
(* BIDS.parseOptions, BIDS.formatIssues *)

Options == [ignoreWarnings : BOOLEAN, ignoreNiftiHeaders : BOOLEAN]

\* parseOptions that takes both options from ignoreWarnings
parseOptionsFromWarnings(opts) ==
    [ignoreWarnings     |-> IF opts.ignoreWarnings THEN TRUE ELSE FALSE,
     ignoreNiftiHeaders |-> IF opts.ignoreWarnings THEN TRUE ELSE FALSE]

parseOptions(opts) ==
    [ignoreWarnings     |-> IF opts.ignoreWarnings THEN TRUE ELSE FALSE,
     ignoreNiftiHeaders |-> IF opts.ignoreNiftiHeaders THEN TRUE ELSE FALSE]

\* the atoms in the order of their text as JavaScript compares strings
AtomOrder ==
    <<".", "/", "01", "02", "1", "README", "T1w", "_", "a", "anat", "bak", "bold", "bval",
      "bvec", "code", "derivatives", "dwi", "epi", "events", "fmap", "func", "gz", "json", "nii",
      "ses-", "sub-", "task-", "tsv", "x">>

\* a.file.relativePath > b.file.relativePath
RECURSIVE Greater(_, _)
Greater(a, b) ==
    IF a = <<>> THEN FALSE
    ELSE IF b = <<>> THEN TRUE
    ELSE IF Head(a) = Head(b) THEN Greater(Tail(a), Tail(b))
    ELSE IndexOf(AtomOrder, Head(a)) > IndexOf(AtomOrder, Head(b))

\* files.sort(by relative path): a stable sort, by insertion
RECURSIVE Insert(_, _)
Insert(sorted, x) ==
    IF sorted = <<>> THEN <<x>>
    ELSE IF Greater(sorted[Len(sorted)].file, x.file)
         THEN Append(Insert(SubSeq(sorted, 1, Len(sorted) - 1), x), sorted[Len(sorted)])
         ELSE Append(sorted, x)

\* the sort that leaves the files in the order they were pushed
SortAsPushed(files) == files

RECURSIVE Sort(_)
Sort(files) ==
    IF files = <<>> THEN <<>>
    ELSE Insert(Sort(SubSeq(files, 1, Len(files) - 1)), files[Len(files)])

\* the elements of a sequence that satisfy Test, in their order
SelectCode(list, code) == SelectSeq(list, LAMBDA i : i.code = code)

\* a set of numbers in ascending order (the order for..in visits integer keys)
RECURSIVE Ascending(_)
Ascending(S) ==
    IF S = {} THEN <<>>
    ELSE LET m == CHOOSE x \in S : \A y \in S : x <= y IN <<m>> \o Ascending(S \ {m})

(***************************************************************************)
(* formatIssues on the issue list `list` with the options `opts` and the   *)
(* table `table`: the errors and the warnings, each a sequence of groups   *)
(* [code, severity, files], and the table with the files lists it has      *)
(* attached to the table's own entries.                                    *)
(***************************************************************************)
formatIssues(list, opts, table) ==
    LET categorized == Ascending({ list[k].code : k \in 1..Len(list) })
        \* issue.code = key: the key of a for..in loop is a string
        group(code) == [code |-> ToString(code), severity |-> severity(code),
                        files |-> Sort(SelectCode(list, code))]
        groups == [k \in 1..Len(categorized) |-> group(categorized[k])]
    IN [ errors |-> SelectSeq(groups, LAMBDA g : g.severity = "error"),
         warnings |-> SelectSeq(groups, LAMBDA g :
                          g.severity = "warning" /\ ~opts.ignoreWarnings),
         table |-> [c \in DOMAIN table |->
                      IF \E k \in 1..Len(groups) : groups[k].code = ToString(c)
                      THEN group(c).files ELSE table[c]] ]

-----------------------------------------------------------------------------
(* BIDS.fullTest *)

\* one start() invocation before it starts
IdleRun ==
    [ pc |-> "idle",            \* idle, readDir, phase1, phase2, done
      files |-> <<>>,           \* fileList
      opts |-> [ignoreWarnings |-> FALSE, ignoreNiftiHeaders |-> FALSE],
                                \* the options this invocation was started with
      asked |-> Unset,          \* history: the options argument as the caller gave it
      couldBeBIDS |-> Unset,    \* what quickTest called back with
      st |-> <<>>,              \* per file: todo, read, val, done (cb called)
      jsonContentsDict |-> {},  \* entries [key, value]
      bContentsDict |-> {},
      events |-> <<>>,
      niftis |-> <<>>,          \* the deferred files, as indices into fileList
      nst |-> <<>>,             \* per deferred file: hdr, val0, val, done
      headers |-> <<>>,         \* the pairs [file, header]
      summary |-> [sessions |-> <<>>, subjects |-> <<>>, tasks |-> <<>>,
                   modalities |-> <<>>, totalFiles |-> 0, size |-> 0],
      result |-> Unset,         \* what the caller's callback was called with
      callbacks |-> 0,          \* how often the caller's callback was called
      pushed |-> EmptyBag,      \* history: the issues this invocation appended
      calls |-> <<>>,           \* history: the calls of the final callback, in order
      passed |-> EmptyBag,      \* history: <<file, header>> as handed to NIFTI
      log |-> EmptyBag ]        \* history: what was done to which file

\* a dictionary with the entry of key replaced
Put(dict, key, value) ==
    { e \in dict : e.key # key } \cup {[key |-> key, value |-> value]}

Keys(dict) == { e.key : e \in dict }

\* the merge that keeps only the issue it is given: what was recorded before is lost
PushLosesEarlier(w, issue) ==
    [w EXCEPT !.issues = <<issue>>, !.r.pushed = @ (+) SetToBag({issue})]

\* self.issues.push(issue), remembered as this invocation's
Push(w, issue) ==
    [w EXCEPT !.issues = Append(@, issue), !.r.pushed = @ (+) SetToBag({issue})]

\* self.issues = self.issues.concat(list)
RECURSIVE Concat(_, _)
Concat(w, list) ==
    IF list = <<>> THEN w ELSE Concat(Push(w, Head(list)), Tail(list))

\* history: `what` was done to file i
Log(w, what, i) == [w EXCEPT !.r.log = @ (+) SetToBag({<<what, i>>})]

\* array.push(x) unless the array holds x
PushNew(array, x) == IF IndexOf(array, x) = 0 THEN Append(array, x) ELSE array

\* the label after "ses-" or "sub-" in a path (lines 124-131); <<>>: the key is absent
labelOf(path, key) ==
    LET k == IndexOf(path, key)
        item == SubSeq(path, k, Len(path))
        slash == IndexOf(item, "/")
        \* item.slice(0, -1) when no "/" follows: the last character is cut, which
        \* the cut at "_" removes again for every path of a file with an extension
        dir == IF slash = 0 THEN item ELSE SubSeq(item, 1, slash - 1)
        under == IndexOf(dir, "_")
        token == IF under = 0 THEN dir ELSE SubSeq(dir, 1, under - 1)
    IN IF k = 0 THEN <<>> ELSE <<Join(Tail(token))>>

\* the suffix a NIfTI file adds to summary.modalities (lines 149-151)
suffixOf(path) ==
    LET pathParts == Split(path, "_")
        suffix == pathParts[Len(pathParts)]
    IN Join(SubSeq(suffix, 1, IndexOf(suffix, ".") - 1))

isNifti(file) ==
    EndsWith(fileName(file), <<".", "nii">>) \/ EndsWith(fileName(file), <<".", "nii", ".", "gz">>)

\* which branch of the if chain of lines 135-211 a valid path takes
Kind(file) ==
    IF isNifti(file) THEN "nifti"
    ELSE IF EndsWith(fileName(file), <<".", "tsv">>) THEN "tsv"
    ELSE IF EndsWith(fileName(file), <<".", "bvec">>) THEN "bvec"
    ELSE IF EndsWith(fileName(file), <<".", "bval">>) THEN "bval"
    ELSE IF EndsWith(fileName(file), <<".", "json">>) THEN "json"
    ELSE "other"

AllDone(status) == \A k \in 1..Len(status) : status[k] = "done"

\* history: the next call of the final callback, with what it is given
Call(w, what, given) == [w EXCEPT !.r.calls = Append(@, [what |-> what, given |-> given])]

\* the fieldmap filter that removes nothing
fieldmapFilterKeepsAll(warnings, modalities) == warnings

\* remove fieldmap related warnings if no fieldmaps are present (lines 241-251)
fieldmapFilter(warnings, modalities) ==
    LET fieldmapRelatedCodes == {"6", "7", "8", "9"}
    IN IF IndexOf(modalities, "fieldmap") = 0
       THEN SelectSeq(warnings, LAMBDA g : g.code \notin fieldmapRelatedCodes)
       ELSE warnings

\* the final callback of fullTest (lines 236-253)
Final(w) ==
    LET w1 == Concat(Call(w, "headerFields", w.r.headers), headerFields(w.r.headers))
        w2 == Concat(Call(w1, "session", w1.r.files), session(w1.r.files))
        w3 == Call(w2, "formatIssues", w2.issues)
        fmt == formatIssues(w3.issues, w3.options, w3.issueTable)
        modalities == groupModalities(w3.r.summary.modalities)
        warnings == fieldmapFilter(fmt.warnings, modalities)
        summary == [w3.r.summary EXCEPT !.modalities = modalities]
        w4 == Call(w3, "callback", <<>>)
    IN [w4 EXCEPT !.issueTable = fmt.table,
                  !.r.summary = summary,
                  !.r.result = Some([kind |-> "issues", errors |-> fmt.errors,
                                     warnings |-> warnings, summary |-> summary]),
                  !.r.callbacks = @ + 1,
                  !.r.pc = "done"]

\* the start of phase 2 that reads every header, whatever the options say
Phase2ReadsHeaders(w) ==
    LET n == Len(w.r.niftis)
        w1 == [w EXCEPT !.r.pc = "phase2",
                        !.r.nst = [k \in 1..n |-> "hdr"],
                        !.r.log = @ (+) SetToBag({ <<"readNiftiHeader", w.r.niftis[k]>> : k \in 1..n })]
    IN IF n = 0 THEN Final(w1) ELSE w1

\* the iteratee of the second forEachOf up to its first callback (lines 214-234),
\* for every deferred file, and the final callback at once when there is none
Phase2(w) ==
    LET n == Len(w.r.niftis)
        ignore == w.options.ignoreNiftiHeaders
        w1 == [w EXCEPT !.r.pc = "phase2",
                        !.r.nst = [k \in 1..n |-> IF ignore THEN "val0" ELSE "hdr"],
                        !.r.passed = @ (+) SetToBag({ <<w.r.niftis[k], "null">> :
                                                      k \in { j \in 1..n : ignore } }),
                        !.r.log = @ (+) SetToBag({ <<IF ignore THEN "NIFTI" ELSE "readNiftiHeader",
                                                    w.r.niftis[k]>> : k \in 1..n })]
    IN IF n = 0 THEN Final(w1) ELSE w1

\* the join of phase 1 without its barrier: phase 2 starts as soon as every file
\* has been dispatched, whatever has not called back yet
Cb1NoBarrier(w, i) ==
    LET w1 == [w EXCEPT !.r.st[i] = "done"]
    IN IF w1.r.pc = "phase1" /\ \A k \in 1..Len(w1.r.st) : w1.r.st[k] # "todo"
       THEN Phase2(w1) ELSE w1

\* cb() of the first forEachOf for file i: the join of phase 1
Cb1(w, i) ==
    LET w1 == [w EXCEPT !.r.st[i] = "done"]
    IN IF AllDone(w1.r.st) THEN Phase2(w1) ELSE w1

\* the join of phase 2 without its barrier: the final callback runs as soon as
\* one deferred file has called back
Cb2NoBarrier(w, k) ==
    LET w1 == [w EXCEPT !.r.nst[k] = "done"]
    IN IF w1.r.nst # <<>> THEN Final(w1) ELSE w1

\* cb() of the second forEachOf for the k-th deferred file: the join of phase 2
Cb2(w, k) ==
    LET w1 == [w EXCEPT !.r.nst[k] = "done"]
    IN IF AllDone(w1.r.nst) THEN Final(w1) ELSE w1

\* the summary after the statistics of one file (lines 114-132)
collect(summary, file) ==
    LET path == relativePath(file)
        ses == labelOf(path, "ses-")
        sub == labelOf(path, "sub-")
    IN [summary EXCEPT
          !.size = @ + file.size,
          !.sessions = IF ses = <<>> THEN @ ELSE PushNew(@, ses[1]),
          !.subjects = IF sub = <<>> THEN @ ELSE PushNew(@, sub[1])]

\* the iteratee that records nothing for a path isBIDS rejects
DispatchInvalidUnrecorded(w, i) ==
    LET file == w.r.files[i]
        w1 == Log([w EXCEPT !.r.summary = collect(@, file)], "isBIDS", i)
    IN IF ~isBIDS(file.relativePath)
       THEN Cb1(w1, i)
       ELSE IF Kind(file) = "nifti"
       THEN Cb1(Log([w1 EXCEPT !.r.niftis = Append(@, i),
                               !.r.summary.modalities = PushNew(@, suffixOf(file.relativePath))],
                    "niftis", i), i)
       ELSE IF Kind(file) \in {"tsv", "bvec", "bval", "json"}
       THEN Log([w1 EXCEPT !.r.st[i] = "read"], "readFile", i)
       ELSE Cb1(w1, i)

\* the iteratee of the first forEachOf for file i, up to its first callback
\* (lines 111-211)
Dispatch(w, i) ==
    LET file == w.r.files[i]
        w1 == Log([w EXCEPT !.r.summary = collect(@, file)], "isBIDS", i)
    IN IF ~isBIDS(file.relativePath)
       THEN Cb1(Push(w1, Issue(1, file)), i)
       ELSE IF Kind(file) = "nifti"
       THEN Cb1(Log([w1 EXCEPT !.r.niftis = Append(@, i),
                               !.r.summary.modalities = PushNew(@, suffixOf(file.relativePath))],
                    "niftis", i), i)
       ELSE IF Kind(file) \in {"tsv", "bvec", "bval", "json"}
       THEN Log([w1 EXCEPT !.r.st[i] = "read"], "readFile", i)
       ELSE Cb1(w1, i)

\* the first forEachOf: the iteratee for every file of the list, in order
RECURSIVE DispatchFrom(_, _)
DispatchFrom(w, i) ==
    IF i > Len(w.r.files) THEN w ELSE DispatchFrom(Dispatch(w, i), i + 1)

\* fullTest(fileList, callback) up to the first callback it waits for
fullTest(w) ==
    DispatchFrom([w EXCEPT !.r.pc = "phase1",
                           !.r.st = [k \in 1..Len(w.r.files) |-> "todo"],
                           !.r.summary.totalFiles = Len(w.r.files)], 1)

\* the callback of readDir that starts fullTest whatever quickTest answers
readDirCallbackAlwaysFull(w) ==
    fullTest([w EXCEPT !.r.couldBeBIDS = Some(quickTest(w.r.files))])

\* the callback of readDir (lines 32-40): quickTest, then fullTest or 'Invalid'
readDirCallback(w) ==
    LET couldBeBIDS == quickTest(w.r.files)
        w1 == [w EXCEPT !.r.couldBeBIDS = Some(couldBeBIDS)]
    IN IF couldBeBIDS THEN fullTest(w1)
       ELSE [w1 EXCEPT !.r.result = Some([kind |-> "Invalid", errors |-> <<>>,
                                          warnings |-> <<>>, summary |-> IdleRun.summary]),
                       !.r.callbacks = @ + 1,
                       !.r.pc = "done"]

-----------------------------------------------------------------------------
(* BIDS.start and the callbacks of the collaborators *)

\* how many files a file list of a single invocation holds at most
MaxFiles == 3

\* how many start() invocations are in flight together
NRuns == 2

\* the file lists readDir answers with when one invocation is followed step by step
RunFileLists ==
    { [k \in 1..Cardinality(S) |-> Catalogue[Ascending(S)[k]]] :
        S \in { T \in SUBSET (1..Len(Catalogue)) : Cardinality(T) <= MaxFiles } }

\* the file lists readDir answers with when several invocations share the validator
RunsFileLists ==
    { <<Catalogue[1]>>,
      <<Catalogue[4], Catalogue[5], Catalogue[6]>>,
      <<Catalogue[8], Catalogue[9], Catalogue[10]>> }

FileLists == IF mode \in {"runs", "seq"} THEN RunsFileLists ELSE RunFileLists

\* the values a caller gives an option, and which of them JavaScript takes as true
OptionValues == {"undefined", "true"}

truthy(v) == v \notin {"undefined", "false", "0", ""}

\* the options argument of start(): absent, or an object
OptionArgs ==
    {Unset} \cup { Some([ignoreWarnings |-> a, ignoreNiftiHeaders |-> b]) :
                     a \in OptionValues, b \in OptionValues }

\* BIDS.options as the module is loaded, and as start() sets it without an argument:
\* {}, of which the code reads only whether a field is true
EmptyOptions == [ignoreWarnings |-> FALSE, ignoreNiftiHeaders |-> FALSE]

\* the validator as invocation r sees it
World(r) == [options |-> options, issues |-> issues, issueTable |-> issueTable, r |-> run[r]]

\* the validator after a step of invocation r
Becomes(r, w) ==
    /\ options' = w.options
    /\ issues' = w.issues
    /\ issueTable' = w.issueTable
    /\ run' = [run EXCEPT ![r] = w.r]
    /\ UNCHANGED <<mode, tPath, tCls, gIn, gOut, promise, nextTick>>

InitRuns ==
    /\ mode = "runs"
    /\ run = [r \in 1..NRuns |-> IdleRun]
    /\ options = EmptyOptions
    /\ issues = <<>>
    /\ issueTable = [c \in AllCodes |-> <<>>]
    /\ tPath = <<>>
    /\ tCls = Unset
    /\ gIn = <<>>
    /\ gOut = Unset
    /\ NoReads

InitRun ==
    /\ mode = "run"
    /\ run = <<IdleRun>>
    /\ options = EmptyOptions
    /\ issues = <<>>
    /\ issueTable = [c \in AllCodes |-> <<>>]
    /\ tPath = <<>>
    /\ tCls = Unset
    /\ gIn = <<>>
    /\ gOut = Unset
    /\ NoReads

\* start(dir, options, callback) up to the call of readDir (lines 28-32)
Start(r) ==
    /\ r \in DOMAIN run
    /\ run[r].pc = "idle"
    /\ \E files \in FileLists, o \in OptionArgs :
         LET opts == IF o # Unset THEN parseOptions([ignoreWarnings |-> truthy(o[1].ignoreWarnings),
                                                    ignoreNiftiHeaders |-> truthy(o[1].ignoreNiftiHeaders)])
                     ELSE EmptyOptions
         IN Becomes(r, [World(r) EXCEPT !.options = opts,
                                        !.issues = <<>>,
                                        !.r.files = files,
                                        !.r.opts = opts,
                                        !.r.asked = o,
                                        !.r.pc = "readDir"])

\* readDir calls back with the files (lines 32-40)
ReadDirCb(r) ==
    /\ r \in DOMAIN run
    /\ run[r].pc = "readDir"
    /\ Becomes(r, readDirCallback(World(r)))

Waiting(r, i, status, kind) ==
    /\ r \in DOMAIN run
    /\ run[r].pc = "phase1"
    /\ i \in 1..Len(run[r].files)
    /\ run[r].st[i] = status
    /\ Kind(run[r].files[i]) = kind

\* readFile calls back with the contents of a .tsv file (lines 160-163)
TsvReadCb(r, i) ==
    /\ Waiting(r, i, "read", "tsv")
    /\ LET file == run[r].files[i]
           isEvents == EndsWith(fileName(file), <<"_", "events", ".", "tsv">>)
           w == World(r)
           w1 == IF isEvents
                 THEN Log([w EXCEPT !.r.events = Append(@, file.relativePath)], "events", i)
                 ELSE w
       IN Becomes(r, Log([w1 EXCEPT !.r.st[i] = "val"], "TSV", i))

\* TSV calls back with its issues (lines 163-166)
TsvCb(r, i) ==
    /\ Waiting(r, i, "val", "tsv")
    /\ Becomes(r, Cb1(Concat(World(r), found(run[r].files[i])), i))

\* readFile calls back with the contents of a .bvec file (lines 172-174)
BvecReadCb(r, i) ==
    /\ Waiting(r, i, "read", "bvec")
    /\ LET file == run[r].files[i]
           w == [World(r) EXCEPT !.r.bContentsDict = Put(@, file.relativePath, "contents"),
                                 !.r.st[i] = "val"]
       IN Becomes(r, Log(Log(w, "bContentsDict", i), "bvec", i))

\* bvec calls back with its issues (lines 174-177)
BvecCb(r, i) ==
    /\ Waiting(r, i, "val", "bvec")
    /\ Becomes(r, Cb1(Concat(World(r), found(run[r].files[i])), i))

\* readFile calls back with the contents of a .bval file (lines 183-185)
BvalReadCb(r, i) ==
    /\ Waiting(r, i, "read", "bval")
    /\ LET file == run[r].files[i]
           w == [World(r) EXCEPT !.r.bContentsDict = Put(@, file.relativePath, "contents"),
                                 !.r.st[i] = "val"]
       IN Becomes(r, Log(Log(w, "bContentsDict", i), "bval", i))

\* bval calls back with its issues (lines 185-188)
BvalCb(r, i) ==
    /\ Waiting(r, i, "val", "bval")
    /\ Becomes(r, Cb1(Concat(World(r), found(run[r].files[i])), i))

\* readFile calls back with the contents of a .json file (lines 194-195)
JsonReadCb(r, i) ==
    /\ Waiting(r, i, "read", "json")
    /\ Becomes(r, Log([World(r) EXCEPT !.r.st[i] = "val"], "json", i))

\* json calls back with its issues and the parsed object (lines 195-207)
JsonCb(r, i) ==
    /\ Waiting(r, i, "val", "json")
    /\ LET file == run[r].files[i]
           jsObj == file.jsObj
           w == Concat(World(r), found(file))
           task == IF jsObj # Unset THEN <<jsObj[1].TaskName>> ELSE <<>>
           w1 == [w EXCEPT !.r.jsonContentsDict = Put(@, file.relativePath, jsObj),
                           !.r.summary.tasks =
                               IF IndexOf(fileName(file), "task-") # 0 /\ task # <<>>
                               THEN PushNew(@, task[1]) ELSE @]
       IN Becomes(r, Cb1(Log(w1, "jsonContentsDict", i), i))

Deferred(r, k, statuses) ==
    /\ r \in DOMAIN run
    /\ run[r].pc = "phase2"
    /\ k \in 1..Len(run[r].niftis)
    /\ run[r].nst[k] \in statuses

\* the header callback that leaves the run when the header cannot be read:
\* the issue is recorded, cb() is not called
HeaderCbAbortsOnError(r, k) ==
    /\ Deferred(r, k, {"hdr"})
    /\ LET i == run[r].niftis[k]
           file == run[r].files[i]
           w == World(r)
       IN IF file.header = "error"
          THEN Becomes(r, [Push(w, headerError(file)) EXCEPT !.r.nst[k] = "done"])
          ELSE Becomes(r, Log([w EXCEPT !.r.headers = Append(@, <<file, file.header>>),
                                        !.r.passed = @ (+) SetToBag({<<i, file.header>>}),
                                        !.r.nst[k] = "val"], "NIFTI", i))

\* the header callback that records the error and keeps the file among the headers
HeaderCbKeepsFailed(r, k) ==
    /\ Deferred(r, k, {"hdr"})
    /\ LET i == run[r].niftis[k]
           file == run[r].files[i]
           w == World(r)
       IN IF file.header = "error"
          THEN Becomes(r, Cb2(Push([w EXCEPT !.r.headers = Append(@, <<file, file.header>>)],
                                   headerError(file)), k))
          ELSE Becomes(r, Log([w EXCEPT !.r.headers = Append(@, <<file, file.header>>),
                                        !.r.passed = @ (+) SetToBag({<<i, file.header>>}),
                                        !.r.nst[k] = "val"], "NIFTI", i))

\* readNiftiHeader calls back with the header or with an error (lines 221-228)
HeaderCb(r, k) ==
    /\ Deferred(r, k, {"hdr"})
    /\ LET i == run[r].niftis[k]
           file == run[r].files[i]
           w == World(r)
       IN IF file.header = "error"
          THEN Becomes(r, Cb2(Push(w, headerError(file)), k))
          ELSE Becomes(r, Log([w EXCEPT !.r.headers = Append(@, <<file, file.header>>),
                                        !.r.passed = @ (+) SetToBag({<<i, file.header>>}),
                                        !.r.nst[k] = "val"], "NIFTI", i))

\* NIFTI calls back with its issues (lines 216-219 and 228-231)
NiftiCb(r, k) ==
    /\ Deferred(r, k, {"val0", "val"})
    /\ Becomes(r, Cb2(Concat(World(r), found(run[r].files[run[r].niftis[k]])), k))

\* the invocations there can be, and the keys a file list can have
Runs == 1..NRuns

FileKeys == 1..Len(Catalogue)

\* the callbacks of the collaborators of invocation r
Callbacks(r) ==
    \/ ReadDirCb(r)
    \/ \E i \in FileKeys : TsvReadCb(r, i)
    \/ \E i \in FileKeys : TsvCb(r, i)
    \/ \E i \in FileKeys : BvecReadCb(r, i)
    \/ \E i \in FileKeys : BvecCb(r, i)
    \/ \E i \in FileKeys : BvalReadCb(r, i)
    \/ \E i \in FileKeys : BvalCb(r, i)
    \/ \E i \in FileKeys : JsonReadCb(r, i)
    \/ \E i \in FileKeys : JsonCb(r, i)
    \/ \E k \in FileKeys : HeaderCb(r, k)
    \/ \E k \in FileKeys : NiftiCb(r, k)

Next ==
    \/ \E r \in Runs : Start(r)
    \/ \E r \in Runs : ReadDirCb(r)
    \/ \E r \in Runs, i \in FileKeys : TsvReadCb(r, i)
    \/ \E r \in Runs, i \in FileKeys : TsvCb(r, i)
    \/ \E r \in Runs, i \in FileKeys : BvecReadCb(r, i)
    \/ \E r \in Runs, i \in FileKeys : BvecCb(r, i)
    \/ \E r \in Runs, i \in FileKeys : BvalReadCb(r, i)
    \/ \E r \in Runs, i \in FileKeys : BvalCb(r, i)
    \/ \E r \in Runs, i \in FileKeys : JsonReadCb(r, i)
    \/ \E r \in Runs, i \in FileKeys : JsonCb(r, i)
    \/ \E r \in Runs, k \in FileKeys : HeaderCb(r, k)
    \/ \E r \in Runs, k \in FileKeys : NiftiCb(r, k)

\* start() invocations that share the validator
Spec == InitRuns /\ [][Next]_vars

\* the validator as loaded, for a caller that starts one invocation after the other
InitSeq ==
    /\ mode = "seq"
    /\ run = [r \in 1..NRuns |-> IdleRun]
    /\ options = EmptyOptions
    /\ issues = <<>>
    /\ issueTable = [c \in AllCodes |-> <<>>]
    /\ tPath = <<>>
    /\ tCls = Unset
    /\ gIn = <<>>
    /\ gOut = Unset
    /\ NoReads

\* start() called once every earlier invocation has called back
StartNext(r) ==
    /\ \A s \in DOMAIN run : run[s].pc \in {"idle", "done"}
    /\ Start(r)

NextSeq ==
    \/ \E r \in Runs : StartNext(r)
    \/ \E r \in Runs : ReadDirCb(r)
    \/ \E r \in Runs, i \in FileKeys : TsvReadCb(r, i)
    \/ \E r \in Runs, i \in FileKeys : TsvCb(r, i)
    \/ \E r \in Runs, i \in FileKeys : BvecReadCb(r, i)
    \/ \E r \in Runs, i \in FileKeys : BvecCb(r, i)
    \/ \E r \in Runs, i \in FileKeys : BvalReadCb(r, i)
    \/ \E r \in Runs, i \in FileKeys : BvalCb(r, i)
    \/ \E r \in Runs, i \in FileKeys : JsonReadCb(r, i)
    \/ \E r \in Runs, i \in FileKeys : JsonCb(r, i)
    \/ \E r \in Runs, k \in FileKeys : HeaderCb(r, k)
    \/ \E r \in Runs, k \in FileKeys : NiftiCb(r, k)

\* start() invocations one after the other
SpecSeq == InitSeq /\ [][NextSeq]_vars

\* one start() invocation
SpecRun == InitRun /\ [][Next]_vars

\* a collaborator of invocation r has a callback to make: Callbacks(r) is enabled
CallbackOutstanding(r) ==
    \/ run[r].pc = "readDir"
    \/ run[r].pc = "phase1" /\ \E i \in 1..Len(run[r].st) : run[r].st[i] \in {"read", "val"}
    \/ run[r].pc = "phase2" /\ \E k \in 1..Len(run[r].nst) : run[r].nst[k] # "done"

(***************************************************************************)
(* One start() invocation whose collaborators all call back: a callback    *)
(* that stays outstanding is eventually made.  This is the weak fairness   *)
(* of Callbacks(r), written with CallbackOutstanding(r) for its            *)
(* enabledness.                                                            *)
(***************************************************************************)
FairSpecRun ==
    /\ InitRun
    /\ [][Next]_vars
    /\ \A r \in {1} : ([]<>~CallbackOutstanding(r)) \/ ([]<><<Callbacks(r)>>_vars)

-----------------------------------------------------------------------------
(* utils/files/readFile.js *)

\* how many readFile() calls a behaviour makes
MaxReads == 2

Reads == 1..MaxReads

\* the files handed to readFile, one per call
readPath(p) == <<"/", "sub-", "01", "_", "events", ".", "tsv", ToString(p)>>

\* what a promise is settled with
Undefined == [is |-> "undefined"]
Contents(file) == [is |-> "string", of |-> file]
NewIssue(code, file) == [is |-> "Issue", code |-> code, file |-> file]

\* the issue testFile reports for a file it finds unreadable
testFileIssue(file) == NewIssue(44, file)

\* a promise before readFile has been called for it
NoPromise ==
    [pc |-> "none", file |-> <<>>, fs |-> FALSE, state |-> "pending", value |-> Unset,
     issue |-> Unset, reads |-> 0, err |-> Unset, result |-> Unset]

\* resolve(value) and reject(reason): the first one settles the promise, later ones do nothing
Settle(pr, state, value) ==
    IF pr.state = "pending" THEN [pr EXCEPT !.state = state, !.value = Some(value)] ELSE pr

InitRead ==
    /\ mode = "read"
    /\ promise = [p \in Reads |-> NoPromise]
    /\ nextTick = <<>>
    /\ tPath = <<>>
    /\ tCls = Unset
    /\ gIn = <<>>
    /\ gOut = Unset
    /\ NoRuns

\* readFile(file) up to the return of the promise (lines 17-20, 32-34, 43)
readFile(p, fs) ==
    /\ mode = "read"
    /\ p \in DOMAIN promise
    /\ promise[p].pc = "none"
    /\ promise' = [promise EXCEPT ![p].pc = IF fs THEN "testFile" ELSE "readAsBinaryString",
                                  ![p].fs = fs,
                                  ![p].file = readPath(p)]
    /\ UNCHANGED <<options, issues, issueTable, run, mode, tPath, tCls, gIn, gOut, nextTick>>

\* the callback handed to testFile (lines 20-26); callbacks of the event loop run
\* once the nextTick queue is empty
testFileCb(p, unreadable) ==
    /\ mode = "read"
    /\ p \in DOMAIN promise
    /\ promise[p].pc = "testFile"
    /\ nextTick = <<>>
    /\ LET issue == IF unreadable THEN Some(testFileIssue(promise[p].file)) ELSE Unset
       IN /\ nextTick' = IF issue # Unset
                         THEN Append(nextTick, [p |-> p, settle |-> "rejected", with |-> issue[1]])
                         ELSE nextTick
          /\ promise' = [promise EXCEPT ![p].issue = issue,
                                        ![p].reads = @ + 1,
                                        ![p].pc = "fs.readFile"]
    /\ UNCHANGED <<options, issues, issueTable, run, mode, tPath, tCls, gIn, gOut>>

\* the callback handed to fs.readFile (lines 26-30): err is not looked at
fsReadFileCb(p, err) ==
    /\ mode = "read"
    /\ p \in DOMAIN promise
    /\ promise[p].pc = "fs.readFile"
    /\ nextTick = <<>>
    /\ LET data == IF err THEN Undefined ELSE Contents(promise[p].file)
       IN nextTick' = Append(nextTick, [p |-> p, settle |-> "fulfilled", with |-> data])
    /\ promise' = [promise EXCEPT ![p].err = Some(err), ![p].pc = "returned"]
    /\ UNCHANGED <<options, issues, issueTable, run, mode, tPath, tCls, gIn, gOut>>

\* the first callback of the nextTick queue runs (lines 22-24, 27-29)
Tick ==
    /\ mode = "read"
    /\ nextTick # <<>>
    /\ LET t == Head(nextTick)
       IN promise' = [promise EXCEPT ![t.p] = Settle(@, t.settle, t.with)]
    /\ nextTick' = Tail(nextTick)
    /\ UNCHANGED <<options, issues, issueTable, run, mode, tPath, tCls, gIn, gOut>>

\* what a FileReader can hold when it fires loadend: nothing, the empty string, or contents
ReaderResults == {"null", "empty", "contents"}

\* reader.onloadend (lines 34-41); a reader that fires loadend is in the state DONE
onloadend(p, result) ==
    /\ mode = "read"
    /\ p \in DOMAIN promise
    /\ promise[p].pc = "readAsBinaryString"
    /\ nextTick = <<>>
    /\ LET pr == [promise[p] EXCEPT !.result = Some(result), !.pc = "returned"]
       IN promise' = [promise EXCEPT ![p] =
                        IF result \in {"null", "empty"}
                        THEN Settle(pr, "rejected", NewIssue(44, pr.file))
                        ELSE Settle(pr, "fulfilled", Contents(pr.file))]
    /\ UNCHANGED <<options, issues, issueTable, run, mode, tPath, tCls, gIn, gOut, nextTick>>

NextRead ==
    \/ \E p \in Reads, fs \in BOOLEAN : readFile(p, fs)
    \/ \E p \in Reads, unreadable \in BOOLEAN : testFileCb(p, unreadable)
    \/ \E p \in Reads, err \in BOOLEAN : fsReadFileCb(p, err)
    \/ Tick
    \/ \E p \in Reads, result \in ReaderResults : onloadend(p, result)

SpecRead == InitRead /\ [][NextRead]_vars

-----------------------------------------------------------------------------
(* Claims about the path grammar and quickTest, under SpecType *)

\* the directory segments of a path (what lies between two "/")
DirSegments(path) ==
    LET parts == Split(path, "/") IN { parts[k] : k \in 2..(Len(parts) - 1) }

\* the directory segments of the form ses-<label>
SesDirs(path) ==
    { seg \in DirSegments(path) :
        /\ Len(seg) >= 2
        /\ seg[1] = "ses-"
        /\ \A k \in 2..Len(seg) : seg[k] \in Alnum }

\* the file name holds the token _<seg>, seg being ses-<label>
HasToken(name, seg) ==
    \E i \in 1..Len(name) :
        /\ StartsAt(name, i, <<"_">> \o seg)
        /\ LET j == i + Len(seg) + 1 IN j > Len(name) \/ name[j] \notin Alnum

\* the file name holds some token _ses-<label>
HasSesToken(name) ==
    \E i \in 1..Len(name) :
        /\ StartsAt(name, i, <<"_", "ses-">>)
        /\ i + 2 <= Len(name)
        /\ name[i + 2] \in Alnum

DirWithoutToken(path) == \E seg \in SesDirs(path) : ~HasToken(BaseName(path), seg)
TokenWithoutDir(path) == SesDirs(path) = {} /\ HasSesToken(BaseName(path))
SessionMismatch(path) == DirWithoutToken(path) \/ TokenWithoutDir(path)

SessionAware ==
    {"isSessionLevel", "isAnat", "isDWI", "isFunc", "isBehavioral", "isCont", "isFieldMap"}

Categories ==
    {"isTopLevel", "isCodeOrDerivatives", "isVersionControl", "isSessionLevel",
     "isSubjectLevel", "isAnat", "isDWI", "isFunc", "isBehavioral", "isCont", "isFieldMap"}

ExSesDirNoToken ==
    <<"/", "sub-", "01", "/", "ses-", "01", "/", "anat", "/",
      "sub-", "01", "_", "T1w", ".", "nii", ".", "gz">>
ExNoSession ==
    <<"/", "sub-", "01", "/", "anat", "/", "sub-", "01", "_", "T1w", ".", "nii", ".", "gz">>

\* what C6 says quickTest answers for the list holding one file of this path
ClaimedQuickTest(path) ==
    LET parts == Split(path, "/")
        n == Len(parts)
        name == parts[n]
    IN  /\ \A k \in 2..(n - 1) : parts[k] # <<"derivatives">>
        /\ EndsWith(name, <<".", "nii">>) \/ EndsWith(name, <<".", "nii", ".", "gz">>)
        /\ n >= 3
        /\ parts[n - 1] \in {<<"anat">>, <<"func">>, <<"dwi">>}
        /\ parts[n - 2] # <<>>
        /\ parts[n - 2][1] \in {"sub-", "ses-"}

(* C6, as stated: quickTest yields true if and only if the list holds a file
   outside any derivatives subtree whose name ends in .nii or .nii.gz, whose
   parent directory is anat, func or dwi and whose grandparent directory
   starts with sub- or ses-.  Checked on the lists of one file. *)
C6_QuickTestIffNiftiFile ==
    tCls # Unset => (tCls[1].quickTest <=> ClaimedQuickTest(tPath))

(* C7, as stated: a path with a ses-<label> directory but no matching
   _ses-<label> token in the file name, or with such a token but no ses-<label>
   directory, is rejected by every session-aware predicate and by isBIDS;
   /sub-01/ses-01/anat/sub-01_T1w.nii.gz is rejected and
   /sub-01/anat/sub-01_T1w.nii.gz is accepted. *)
C7_SessionMismatchRejected ==
    tCls # Unset =>
        /\ SessionMismatch(tPath) =>
              /\ \A p \in SessionAware : ~tCls[1][p]
              /\ ~tCls[1].isBIDS
        /\ tPath = ExSesDirNoToken => ~tCls[1].isBIDS
        /\ tPath = ExNoSession => tCls[1].isBIDS

(* C7, amended: the same, except that isBIDS rejects such a path only when it
   does not lie under /code/, /derivatives/ or /.git/ (whose content is
   accepted whatever its name). *)
C7_SessionMismatchRejectedOutsideUnchecked ==
    tCls # Unset =>
        /\ SessionMismatch(tPath) =>
              /\ \A p \in SessionAware : ~tCls[1][p]
              /\ tCls[1].isBIDS =>
                    tCls[1].isCodeOrDerivatives \/ tCls[1].isVersionControl
        /\ tPath = ExSesDirNoToken => ~tCls[1].isBIDS
        /\ tPath = ExNoSession => tCls[1].isBIDS

\* C7's case: the predicates have answered for the spec's example path
C7_Witness ==
    /\ tCls # Unset
    /\ tPath = ExSesDirNoToken
    /\ DirWithoutToken(tPath)
    /\ ~tCls[1].isAnat

(* C8, as stated: for every path at most one of the category predicates
   returns true, and the path is invalid (isBIDS false) exactly when none does. *)
C8_ExactlyOneCategory ==
    tCls # Unset =>
        LET n == Cardinality({p \in Categories : tCls[1][p]})
        IN  /\ n <= 1
            /\ ~tCls[1].isBIDS <=> n = 0

-----------------------------------------------------------------------------
(* Claims about groupModalities, under SpecGroup *)

Range(seq) == { seq[k] : k \in 1..Len(seq) }
AsSet(group) == Range(group.groupSet)

\* the reference procedure of C10: add the label, then remove the subset
RECURSIVE AddThenRemove(_, _)
AddThenRemove(working, g) ==
    IF g > Len(modalityGroups) THEN working
    ELSE AddThenRemove(
             IF AsSet(modalityGroups[g]) \subseteq working
             THEN (working \cup {modalityGroups[g].groupName}) \ AsSet(modalityGroups[g])
             ELSE working,
             g + 1)

\* the same with the two steps exchanged: remove the subset, then add the label
RECURSIVE RemoveThenAdd(_, _)
RemoveThenAdd(working, g) ==
    IF g > Len(modalityGroups) THEN working
    ELSE RemoveThenAdd(
             IF AsSet(modalityGroups[g]) \subseteq working
             THEN (working \ AsSet(modalityGroups[g])) \cup {modalityGroups[g].groupName}
             ELSE working,
             g + 1)

GroupExamples ==
    /\ Range(gIn) = {"magnitude1", "magnitude2", "phasediff"} => Range(gOut[1]) = {"fieldmap"}
    /\ Range(gIn) = {"epi"} => Range(gOut[1]) = {"fieldmap"}
    /\ Range(gIn) = {"bold"} => Range(gOut[1]) = {"bold"}

(* C10, as stated: groupModalities returns the same set of labels as the
   procedure that, for each rule in order, if the rule's subset is in the
   working set, adds 'fieldmap' and then removes each token of the subset. *)
C10_GroupsAsAddThenRemove ==
    gOut # Unset =>
        /\ Range(gOut[1]) = AddThenRemove(Range(gIn), 1)
        /\ GroupExamples

(* C10, amended: groupModalities returns the same set of labels as the
   procedure that, for each rule in order, if the rule's subset is in the
   working set, removes each token of the subset and then adds 'fieldmap'
   (so that {magnitude, fieldmap} gives {fieldmap}). *)
C10_GroupsAsRemoveThenAdd ==
    gOut # Unset =>
        /\ Range(gOut[1]) = RemoveThenAdd(Range(gIn), 1)
        /\ GroupExamples

\* C10's case: a rule whose subset holds its own label has been applied
C10_Witness ==
    /\ gOut # Unset
    /\ Range(gIn) = {"magnitude", "fieldmap", "bold"}
    /\ Range(gOut[1]) = {"fieldmap", "bold"}

-----------------------------------------------------------------------------
(* Claims about the pipeline *)

RECURSIVE BagOfSeq(_)
BagOfSeq(seq) ==
    IF seq = <<>> THEN EmptyBag ELSE SetToBag({Head(seq)}) (+) BagOfSeq(Tail(seq))

\* the issues of a delivered result, over all its groups
ResultIssues(result) ==
    BagOfSeq(Flatten([k \in 1..Len(result.errors) |-> result.errors[k].files])
             \o Flatten([k \in 1..Len(result.warnings) |-> result.warnings[k].files]))

\* whether an invocation reports an issue of this code under its own options
Reported(rec, code) ==
    \/ severity(code) = "error"
    \/ /\ ~rec.opts.ignoreWarnings
       /\ code \in {6, 7, 8, 9} => IndexOf(rec.summary.modalities, "fieldmap") # 0

\* the issues produced for the invocation's own files that its own options report
OwnIssues(rec) ==
    [issue \in { x \in BagToSet(rec.pushed) : Reported(rec, x.code) } |-> rec.pushed[issue]]

Delivered(rec) == rec.result # Unset /\ rec.result[1].kind = "issues"

(* C1: validation runs are isolated: the errors and warnings an invocation
   reports are exactly the issues produced for its own files under its own
   options, whatever other invocation is in flight at the same time. *)
C1_RunsIsolated ==
    \A r \in DOMAIN run :
        Delivered(run[r]) => ResultIssues(run[r].result[1]) = OwnIssues(run[r])

\* what was done to file i of an invocation
Done(rec, i) == { e[1] : e \in { x \in BagToSet(rec.log) : x[2] = i } }

Dispatched(rec) == IF rec.st = <<>> THEN {} ELSE 1..Len(rec.files)

PathOf(rec, i) == rec.files[i].relativePath

\* the paths of the catalogue that isBIDS accepts
AcceptedPaths ==
    { Catalogue[k].relativePath :
        k \in { j \in 1..Len(Catalogue) : isBIDS(Catalogue[j].relativePath) } }

(* C2: for every file of the list fullTest has gone through, a path isBIDS
   rejects has exactly one issue of code 1 recorded and nothing else done to
   it (not read, no validator, not deferred, not in the events list or the
   maps); a path isBIDS accepts has no issue of code 1. *)
C2_InvalidPathOneIssueOnly ==
    \A r \in DOMAIN run : \A i \in Dispatched(run[r]) :
        LET rec == run[r]
            codeOne == CopiesIn(Issue(1, rec.files[i]), rec.pushed)
        IN IF PathOf(rec, i) \in AcceptedPaths
           THEN codeOne = 0
           ELSE /\ codeOne = 1
                /\ Done(rec, i) = {"isBIDS"}
                /\ i \notin Range(rec.niftis)
                /\ PathOf(rec, i) \notin Range(rec.events)
                /\ PathOf(rec, i) \notin Keys(rec.jsonContentsDict) \cup Keys(rec.bContentsDict)
                /\ rec.st[i] = "done"

\* C2's case: a finished run whose list holds a rejected path and an accepted one
C2_Witness ==
    \E r \in DOMAIN run :
        /\ run[r].pc = "done"
        /\ \E i, j \in Dispatched(run[r]) :
             /\ PathOf(run[r], i) \notin AcceptedPaths
             /\ CopiesIn(Issue(1, run[r].files[i]), run[r].pushed) = 1
             /\ PathOf(run[r], j) \in AcceptedPaths
             /\ "readFile" \in Done(run[r], j)

\* the files of the list with an accepted path that take one of the branches
Accepted(rec, kinds) ==
    { i \in 1..Len(rec.files) : PathOf(rec, i) \in AcceptedPaths /\ Kind(rec.files[i]) \in kinds }

\* every file has finished phase 1: its issues are merged, the maps and lists are complete
Phase1Complete(rec) ==
    /\ AllDone(rec.st)
    /\ Keys(rec.jsonContentsDict) = { PathOf(rec, i) : i \in Accepted(rec, {"json"}) }
    /\ Keys(rec.bContentsDict) = { PathOf(rec, i) : i \in Accepted(rec, {"bval", "bvec"}) }
    /\ Range(rec.events) =
           { PathOf(rec, i) : i \in { j \in Accepted(rec, {"tsv"}) :
                 EndsWith(fileName(rec.files[j]), <<"_", "events", ".", "tsv">>) } }
    /\ Range(rec.niftis) = Accepted(rec, {"nifti"})
    /\ \A i \in 1..Len(rec.files) :
         IF PathOf(rec, i) \notin AcceptedPaths
         THEN CopiesIn(Issue(1, rec.files[i]), rec.pushed) >= 1
         ELSE Kind(rec.files[i]) \in {"tsv", "bvec", "bval", "json"} =>
                \A issue \in Range(found(rec.files[i])) : CopiesIn(issue, rec.pushed) >= 1

Phase2Begun(rec) ==
    \/ rec.nst # <<>>
    \/ \E e \in BagToSet(rec.log) : e[1] \in {"readNiftiHeader", "NIFTI"}

(* C3: phase barrier: no header read and no NIfTI validator call begins
   before every file of the list has finished phase 1, so that every NIfTI
   validator call sees the complete maps and lists. *)
C3_PhaseBarrier ==
    \A r \in DOMAIN run : Phase2Begun(run[r]) => Phase1Complete(run[r])

\* C3's case: the NIfTI validator has been called after a json file and a b-file
\* were read and validated
C3_Witness ==
    \E r \in DOMAIN run :
        /\ \E e \in BagToSet(run[r].log) : e[1] = "NIFTI"
        /\ run[r].jsonContentsDict # {}
        /\ run[r].bContentsDict # {}

(* C4: when every collaborator calls back, every start() invocation
   eventually calls the caller's callback, and never more than once, whatever
   invalid paths, validator issues and header read failures occur. *)
C4_CallbackExactlyOnce ==
    /\ [](\A r \in DOMAIN run : run[r].callbacks <= 1)
    /\ \A r \in {1} : (run[r].pc # "idle") ~> (run[r].callbacks = 1 /\ run[r].result # Unset)
    /\ [](\A r \in DOMAIN run : run[r].callbacks = 1 =>
              (quickTest(run[r].files) <=> run[r].result[1].kind = "issues"))

ErrorCodes(rec) == { rec.result[1].errors[k].code : k \in 1..Len(rec.result[1].errors) }

\* C4's case: the callback was called once with a result that reports an invalid
\* path and a header that could not be read
C4_Witness ==
    \E r \in DOMAIN run :
        /\ run[r].pc = "done"
        /\ run[r].callbacks = 1
        /\ Delivered(run[r])
        /\ {"1", "26"} \subseteq ErrorCodes(run[r])

(* C5: when quickTest yields false, the callback is called with 'Invalid' and
   fullTest never runs: no path is classified, no file is read, no validator
   is called, no issue is recorded. *)
C5_QuickTestShortCircuit ==
    \A r \in DOMAIN run :
        (run[r].pc \notin {"idle", "readDir"} /\ ~quickTest(run[r].files)) =>
            /\ run[r].result # Unset
            /\ run[r].result[1].kind = "Invalid"
            /\ run[r].callbacks = 1
            /\ run[r].st = <<>>
            /\ run[r].log = EmptyBag
            /\ run[r].pushed = EmptyBag

\* C5's case: a list with files, one of them a .json file, was rejected by quickTest
C5_Witness ==
    \E r \in DOMAIN run :
        /\ run[r].pc = "done"
        /\ run[r].result[1].kind = "Invalid"
        /\ \E i \in 1..Len(run[r].files) : Kind(run[r].files[i]) = "json"

\* a path under /code/, /derivatives/ or /.git/
Unchecked(path) ==
    \/ StartsAt(path, 1, <<"/", "code", "/">>)
    \/ StartsAt(path, 1, <<"/", "derivatives", "/">>)
    \/ StartsAt(path, 1, <<"/", ".", "git", "/">>)

(* C9: a file under /code/, /derivatives/ or /.git/ is accepted unchecked: no
   issue of code 1, and fullTest never reads it, never passes it to a
   validator, never defers it as a NIfTI file, never lets it add to the
   modalities. *)
C9_UncheckedNotValidated ==
    \A r \in DOMAIN run : \A i \in Dispatched(run[r]) :
        Unchecked(PathOf(run[r], i)) =>
            /\ CopiesIn(Issue(1, run[r].files[i]), run[r].pushed) = 0
            /\ Done(run[r], i) \subseteq {"isBIDS"}
            /\ i \notin Range(run[r].niftis)


-----------------------------------------------------------------------------
(* Claims about the grouped modalities *)

NoDuplicates(seq) == \A i, j \in 1..Len(seq) : i # j => seq[i] # seq[j]

(* C11: groupModalities returns a set: for every list of modality tokens
   without duplicates, the returned list holds each label, 'fieldmap'
   included, at most once. *)
C11_GroupsWithoutDuplicates ==
    (gOut # Unset /\ NoDuplicates(gIn)) => NoDuplicates(gOut[1])


-----------------------------------------------------------------------------
(* Claims about the result of fullTest *)

Codes(groups) == { groups[k].code : k \in 1..Len(groups) }

\* the codes of the issues an invocation recorded, as the keys of the groups
Recorded(rec) == { ToString(issue.code) : issue \in BagToSet(rec.pushed) }

RecordedAs(rec, sev) ==
    { ToString(issue.code) : issue \in { x \in BagToSet(rec.pushed) : severity(x.code) = sev } }

FieldmapCodes == {"6", "7", "8", "9"}

\* the suffixes of the first k deferred NIfTI files, each once, in their order
RECURSIVE Suffixes(_, _)
Suffixes(rec, k) ==
    IF k = 0 THEN <<>>
    ELSE PushNew(Suffixes(rec, k - 1), suffixOf(PathOf(rec, rec.niftis[k])))

(* C12: in the result of fullTest a warning group of code 6, 7, 8 or 9 is
   there exactly when such a warning was recorded, ignoreWarnings is off and
   the modalities after grouping hold 'fieldmap'; the other warning groups and
   the error groups are not touched by the filter. *)
C12_FieldmapWarningsSuppressed ==
    \A r \in DOMAIN run :
        Delivered(run[r]) =>
            LET rec == run[r]
                res == rec.result[1]
                fieldmaps == "fieldmap" \in Range(groupModalities(Suffixes(rec, Len(rec.niftis))))
                kept == IF rec.opts.ignoreWarnings THEN {} ELSE RecordedAs(rec, "warning")
            IN /\ Codes(res.warnings) \cap FieldmapCodes =
                      IF fieldmaps THEN kept \cap FieldmapCodes ELSE {}
               /\ Codes(res.warnings) \ FieldmapCodes = kept \ FieldmapCodes
               /\ Codes(res.errors) = RecordedAs(rec, "error")

\* C12's case: a fieldmap warning was recorded, warnings are reported, and the result
\* has no group for it because the grouped modalities hold no 'fieldmap'
C12_Witness ==
    \E r \in DOMAIN run :
        /\ Delivered(run[r])
        /\ ~run[r].opts.ignoreWarnings
        /\ "6" \in Recorded(run[r])
        /\ "6" \notin Codes(run[r].result[1].warnings)
        /\ "13" \in Codes(run[r].result[1].warnings)

\* the other case of C12: the fieldmap warning is kept because an 'epi' image was
\* grouped into 'fieldmap'
C12_Kept ==
    \E r \in DOMAIN run :
        /\ Delivered(run[r])
        /\ "6" \in Codes(run[r].result[1].warnings)


\* what the caller asked for
Asked(rec, option) == rec.asked # Unset /\ truthy(rec.asked[1][option])

\* the issues phase 1 and phase 2 have to record for one file
ExpectedOf(file, ignoreNiftiHeaders) ==
    IF file.relativePath \notin AcceptedPaths THEN <<Issue(1, file)>>
    ELSE IF Kind(file) = "other" THEN <<>>
    ELSE IF Kind(file) = "nifti" /\ ~ignoreNiftiHeaders /\ file.header = "error"
         THEN <<headerError(file)>>
    ELSE found(file)

\* whether the header of a file has to reach the header-field cross-validator
HeaderExpected(file, ignoreNiftiHeaders) ==
    /\ file.relativePath \in AcceptedPaths
    /\ Kind(file) = "nifti"
    /\ ~ignoreNiftiHeaders
    /\ file.header # "error"

\* the issues a run over the files has to record, file by file
ExpectedList(files, ignoreNiftiHeaders) ==
    Flatten([k \in 1..Len(files) |->
        ExpectedOf(files[k], ignoreNiftiHeaders)
        \o (IF HeaderExpected(files[k], ignoreNiftiHeaders)
            THEN [j \in 1..Len(files[k].hf) |-> Issue(files[k].hf[j], files[k])] ELSE <<>>)
        \o [j \in 1..Len(files[k].ses) |-> Issue(files[k].ses[j], files[k])]])

\* the groups of one severity a run over the files has to report, whatever the options
\* say about warnings
ExpectedGroups(files, ignoreNiftiHeaders, sev) ==
    LET all == ExpectedList(files, ignoreNiftiHeaders)
        codes == Ascending({ c \in { all[k].code : k \in 1..Len(all) } : severity(c) = sev })
    IN [k \in 1..Len(codes) |->
          [code |-> ToString(codes[k]), severity |-> sev,
           files |-> Sort(SelectCode(all, codes[k]))]]

\* the labels after a key in the paths of the first k files, each once
RECURSIVE LabelsOf(_, _, _)
LabelsOf(files, key, k) ==
    IF k = 0 THEN <<>>
    ELSE LET label == labelOf(files[k].relativePath, key)
         IN IF label = <<>> THEN LabelsOf(files, key, k - 1)
            ELSE PushNew(LabelsOf(files, key, k - 1), label[1])

\* the suffixes of the accepted NIfTI files among the first k files, each once
RECURSIVE SuffixesOf(_, _)
SuffixesOf(files, k) ==
    IF k = 0 THEN <<>>
    ELSE IF files[k].relativePath \in AcceptedPaths /\ Kind(files[k]) = "nifti"
         THEN PushNew(SuffixesOf(files, k - 1), suffixOf(files[k].relativePath))
         ELSE SuffixesOf(files, k - 1)

\* the task names of the accepted .json files of tasks
TasksOf(files) ==
    { files[k].jsObj[1].TaskName :
        k \in { j \in 1..Len(files) :
                  /\ files[j].relativePath \in AcceptedPaths
                  /\ Kind(files[j]) = "json"
                  /\ IndexOf(fileName(files[j]), "task-") # 0
                  /\ files[j].jsObj # Unset } }

\* whether a summary is the summary of the files
SummaryOf(summary, files) ==
    /\ summary.sessions = LabelsOf(files, "ses-", Len(files))
    /\ summary.subjects = LabelsOf(files, "sub-", Len(files))
    /\ Range(summary.tasks) = TasksOf(files) /\ NoDuplicates(summary.tasks)
    /\ summary.modalities = groupModalities(SuffixesOf(files, Len(files)))
    /\ summary.totalFiles = Len(files)
    /\ summary.size = Len(files)

(* C13: ignoreWarnings affects only the warnings: a run asked to ignore
   warnings returns no warnings, and the errors and the summary of a run are
   those the files and the collaborators' answers determine, the same with
   ignoreWarnings on and off. *)
C13_IgnoreWarningsOnlyWarnings ==
    \A r \in DOMAIN run :
        Delivered(run[r]) =>
            LET rec == run[r]
                res == rec.result[1]
                ignoreNiftiHeaders == Asked(rec, "ignoreNiftiHeaders")
            IN /\ Asked(rec, "ignoreWarnings") => res.warnings = <<>>
               /\ res.errors = ExpectedGroups(rec.files, ignoreNiftiHeaders, "error")
               /\ SummaryOf(res.summary, rec.files)

\* C13's case: a run asked to ignore warnings recorded warnings and errors, and
\* reports the errors only
C13_Witness ==
    \E r \in DOMAIN run :
        /\ Delivered(run[r])
        /\ Asked(run[r], "ignoreWarnings")
        /\ RecordedAs(run[r], "warning") # {}
        /\ run[r].result[1].errors # <<>>
        /\ run[r].result[1].warnings = <<>>


\* the files of a group are in ascending order of their relative paths
Ascends(files) == \A i, j \in 1..Len(files) : i < j => ~Greater(files[i].file, files[j].file)

\* the warnings a run over the files has to report
ExpectedWarnings(files, ignoreWarnings, ignoreNiftiHeaders) ==
    IF ignoreWarnings THEN <<>>
    ELSE SelectSeq(ExpectedGroups(files, ignoreNiftiHeaders, "warning"),
                   LAMBDA g : \/ g.code \notin FieldmapCodes
                              \/ "fieldmap" \in Range(groupModalities(SuffixesOf(files, Len(files)))))

\* the list self.issues as formatIssues was given it
Formatted(rec) ==
    LET k == CHOOSE k \in 1..Len(rec.calls) : rec.calls[k].what = "formatIssues"
    IN rec.calls[k].given

(* C14: whatever the order in which the callbacks of phase 1 and phase 2
   complete, the files of every group of the result are in ascending order of
   their relative paths, and the errors and warnings are those the files, the
   collaborators' answers and the options determine: the same for every order. *)
C14_DeterministicOrdering ==
    \A r \in DOMAIN run :
        Delivered(run[r]) =>
            LET rec == run[r]
                res == rec.result[1]
            IN /\ \A k \in 1..Len(res.errors) : Ascends(res.errors[k].files)
               /\ \A k \in 1..Len(res.warnings) : Ascends(res.warnings[k].files)
               /\ res.errors = ExpectedGroups(rec.files, rec.opts.ignoreNiftiHeaders, "error")
               /\ res.warnings = ExpectedWarnings(rec.files, rec.opts.ignoreWarnings,
                                                  rec.opts.ignoreNiftiHeaders)

\* C14's case: two issues of one code were appended in descending order of their
\* paths, and the result was delivered
C14_Witness ==
    \E r \in DOMAIN run :
        /\ Delivered(run[r])
        /\ \E i, j \in 1..Len(Formatted(run[r])) :
             /\ i < j
             /\ Formatted(run[r])[i].code = Formatted(run[r])[j].code
             /\ Greater(Formatted(run[r])[i].file, Formatted(run[r])[j].file)


\* the deferred files whose header was asked for and could not be read
HeaderFailed(rec) ==
    { k \in 1..Len(rec.nst) :
        /\ rec.nst[k] = "done"
        /\ "readNiftiHeader" \in Done(rec, rec.niftis[k])
        /\ rec.files[rec.niftis[k]].header = "error" }

\* what a call of the final callback was given; <<>> when it was not called
Given(rec, what) ==
    IF \E k \in 1..Len(rec.calls) : rec.calls[k].what = what
    THEN (rec.calls[CHOOSE k \in 1..Len(rec.calls) : rec.calls[k].what = what]).given
    ELSE <<>>

(* C15: when the header of a deferred NIfTI file cannot be read, exactly one
   issue, the header's error, is recorded for the file, the NIfTI validator is
   not called for it, and the file is not among the (file, header) pairs the
   header-field cross-validator is given; the run goes on, and that
   cross-validator is given exactly the deferred files whose header was read. *)
C15_HeaderReadFailure ==
    \A r \in DOMAIN run :
        LET rec == run[r]
            file(k) == rec.files[rec.niftis[k]]
            headers == Given(rec, "headerFields")
        IN /\ \A k \in HeaderFailed(rec) :
                /\ CopiesIn(headerError(file(k)), rec.pushed) = 1
                /\ \A issue \in Range(found(file(k))) : CopiesIn(issue, rec.pushed) = 0
                /\ "NIFTI" \notin Done(rec, rec.niftis[k])
                /\ \A h \in Range(rec.headers) : h[1] # file(k)
           /\ Delivered(rec) =>
                /\ AllDone(rec.nst)
                /\ NoDuplicates(headers)
                /\ { h[1] : h \in Range(headers) } =
                       { file(k) : k \in { j \in 1..Len(rec.niftis) :
                             ~rec.opts.ignoreNiftiHeaders /\ file(j).header # "error" } }

\* C15's case: a run was delivered in which one header could not be read and another
\* could, and the header-field cross-validator was given the other
C15_Witness ==
    \E r \in DOMAIN run :
        /\ Delivered(run[r])
        /\ HeaderFailed(run[r]) # {}
        /\ Given(run[r], "headerFields") # <<>>


\* how often something was done to file i of the run
Times(rec, what, i) == CopiesIn(<<what, i>>, rec.log)

\* the headers the NIfTI validator was handed for file i
HeadersPassed(rec, i) == { e[2] : e \in { x \in BagToSet(rec.passed) : x[1] = i } }

\* the final callback of the second pass called the named collaborator
Called(rec, what) == \E k \in 1..Len(rec.calls) : rec.calls[k].what = what

\* C17 in a state: with ignoreNiftiHeaders no header is read, every deferred file
\* went to NIFTI once with a null header and headerFields was given the empty list;
\* without it every deferred file has its header read once, and NIFTI is called at
\* most once, with the header that was read
HeadersAsOptionsSay(rec) ==
    LET ignore == rec.opts.ignoreNiftiHeaders
        deferred == { rec.niftis[k] : k \in 1..Len(rec.niftis) }
    IN Phase2Begun(rec) =>
         /\ ignore =>
              /\ \A i \in 1..Len(rec.files) : Times(rec, "readNiftiHeader", i) = 0
              /\ \A i \in deferred :
                    /\ Times(rec, "NIFTI", i) = 1
                    /\ HeadersPassed(rec, i) = {"null"}
                    /\ CopiesIn(<<i, "null">>, rec.passed) = 1
              /\ Delivered(rec) =>
                    /\ Called(rec, "headerFields")
                    /\ Given(rec, "headerFields") = <<>>
         /\ ~ignore =>
              /\ \A i \in deferred :
                    /\ Times(rec, "readNiftiHeader", i) = 1
                    /\ Times(rec, "NIFTI", i) <= 1
                    /\ HeadersPassed(rec, i) \subseteq {rec.files[i].header} \ {"error"}
              /\ Delivered(rec) =>
                    \A i \in deferred :
                        Times(rec, "NIFTI", i) = IF rec.files[i].header = "error" THEN 0 ELSE 1

\* C17 in a step: a file is handed to NIFTI without ignoreNiftiHeaders only when its
\* header was asked for in an earlier step
HeaderReadFirst ==
    \A r \in DOMAIN run : \A i \in FileKeys :
        (/\ r \in DOMAIN run'
         /\ ~run'[r].opts.ignoreNiftiHeaders
         /\ Times(run[r], "NIFTI", i) < Times(run'[r], "NIFTI", i))
        => Times(run[r], "readNiftiHeader", i) = 1

(* C17: with ignoreNiftiHeaders set no NIfTI header is ever read, every deferred
   NIfTI file is passed to the NIfTI validator exactly once, with a null
   header, and the header-field cross-validator is called with an empty list;
   with it unset every deferred NIfTI file has its header read exactly once,
   before its own NIfTI validator call. *)
C17_IgnoreNiftiHeaders ==
    /\ [](\A r \in DOMAIN run : HeadersAsOptionsSay(run[r]))
    /\ [][HeaderReadFirst]_vars

\* C17's case: a run with ignoreNiftiHeaders was delivered in which a deferred file
\* whose header cannot be read went to NIFTI
C17_Witness ==
    \E r \in DOMAIN run :
        /\ Delivered(run[r])
        /\ run[r].opts.ignoreNiftiHeaders
        /\ \E k \in 1..Len(run[r].niftis) :
              /\ run[r].files[run[r].niftis[k]].header = "error"
              /\ HeadersPassed(run[r], run[r].niftis[k]) = {"null"}


\* the collaborators the final callback of the second pass has called, in order
CallOrder(rec) == [k \in 1..Len(rec.calls) |-> rec.calls[k].what]

\* a deferred file has completed its phase-2 work: its header could not be read, or
\* the NIfTI validator was called for it and has called back
Phase2WorkDone(rec, k) ==
    LET i == rec.niftis[k]
        failed == Times(rec, "readNiftiHeader", i) = 1 /\ rec.files[i].header = "error"
    IN /\ rec.nst[k] = "done"
       /\ IF failed
          THEN CopiesIn(headerError(rec.files[i]), rec.pushed) = 1
          ELSE /\ Times(rec, "NIFTI", i) = 1
               /\ \A issue \in Range(found(rec.files[i])) : CopiesIn(issue, rec.pushed) = 1

(* C18: phase-2 ordering: in every run that passes quickTest the header-field
   cross-validator and the session cross-validator are each called exactly
   once, only after every deferred NIfTI file has completed its phase-2 work,
   the header-field validator before the session validator, and both before
   the issues are formatted and the final callback fires; also when there are
   no NIfTI files. *)
C18_Phase2Ordering ==
    \A r \in DOMAIN run :
        LET rec == run[r]
            order == <<"headerFields", "session", "formatIssues", "callback">>
        IN /\ CallOrder(rec) \in {<<>>, order}
           /\ CallOrder(rec) # <<>> =>
                /\ rec.couldBeBIDS = Some(TRUE)
                /\ Phase1Complete(rec)
                /\ Len(rec.nst) = Len(rec.niftis)
                /\ \A k \in 1..Len(rec.niftis) : Phase2WorkDone(rec, k)
                /\ Delivered(rec)
                /\ rec.callbacks = 1
           /\ Delivered(rec) => CallOrder(rec) = order
           /\ (rec.callbacks > 0 /\ rec.couldBeBIDS = Some(TRUE)) => Delivered(rec)

\* C18's case: a run was delivered in which one deferred file was validated and the
\* header of another could not be read
C18_Witness ==
    \E r \in DOMAIN run :
        /\ Delivered(run[r])
        /\ CallOrder(run[r]) # <<>>
        /\ \E k, l \in 1..Len(run[r].niftis) :
              /\ Times(run[r], "NIFTI", run[r].niftis[k]) = 1
              /\ Times(run[r], "NIFTI", run[r].niftis[l]) = 0

\* C18's other case: a run without deferred files was delivered
C18_NoNiftiReached ==
    \E r \in DOMAIN run :
        /\ Delivered(run[r])
        /\ run[r].niftis = <<>>


\* how often an issue is among the files of the groups of its code
TimesIn(groups, issue) ==
    LET files == Flatten([k \in 1..Len(groups) |->
                    IF groups[k].code = ToString(issue.code) THEN groups[k].files ELSE <<>>])
    IN CopiesIn(issue, BagOfSeq(files))

\* every issue is in a group of its own code only
GroupedByCode(groups) ==
    \A k \in 1..Len(groups) : \A j \in 1..Len(groups[k].files) :
        ToString(groups[k].files[j].code) = groups[k].code

(* C19: no issue is lost or duplicated by the concurrent merge: under every
   interleaving of the validator callbacks the list handed to formatIssues
   holds every issue the validators returned, every code-1 issue and every
   header error, each exactly once; and each of them is exactly once among the
   files of the output group of its code, unless that group is a warning
   dropped by ignoreWarnings or by the fieldmap filter. *)
C19_NoIssueLostOrDuplicated ==
    \A r \in DOMAIN run :
        Delivered(run[r]) =>
            LET rec == run[r]
                res == rec.result[1]
                list == BagOfSeq(Formatted(rec))
                expected == BagOfSeq(ExpectedList(rec.files, rec.opts.ignoreNiftiHeaders))
                fieldmaps == IndexOf(groupModalities(Suffixes(rec, Len(rec.niftis))), "fieldmap") # 0
                dropped(code) == \/ rec.opts.ignoreWarnings
                                 \/ ToString(code) \in FieldmapCodes /\ ~fieldmaps
            IN /\ list = rec.pushed
               /\ list = expected
               /\ GroupedByCode(res.errors) /\ GroupedByCode(res.warnings)
               /\ \A issue \in BagToSet(list) :
                     /\ CopiesIn(issue, list) = 1
                     /\ IF severity(issue.code) = "error"
                        THEN TimesIn(res.errors, issue) = 1 /\ TimesIn(res.warnings, issue) = 0
                        ELSE /\ TimesIn(res.errors, issue) = 0
                             /\ TimesIn(res.warnings, issue) = IF dropped(issue.code) THEN 0 ELSE 1
               /\ \A issue \in BagToSet(ResultIssues(res)) : CopiesIn(issue, list) = 1

\* C19's case: a delivered run whose list held issues of a phase-1 validator, of a
\* phase-2 validator and a header error, of which a warning and an error were reported
C19_Witness ==
    \E r \in DOMAIN run :
        /\ Delivered(run[r])
        /\ {13, 26, 55} \subseteq { x.code : x \in Range(Formatted(run[r])) }
        /\ run[r].result[1].warnings # <<>>
        /\ Len(run[r].result[1].errors) >= 2


-----------------------------------------------------------------------------
(* Claims about conditionalMatch, under SpecType *)

\* the predicates of type.js that end in conditionalMatch over a modality directory
ModalityPredicates == {"isAnat", "isDWI", "isFunc", "isBehavioral", "isCont", "isFieldMap"}

\* the text <key><label>, the label being letters and digits
IsLabelled(seg, key) ==
    /\ Len(seg) >= 2
    /\ seg[1] = key
    /\ \A k \in 2..Len(seg) : seg[k] \in Alnum

\* the form C20 gives the accepted paths:
\* /sub-<label>/[ses-<label>/]<modality-dir>/sub-<label>[_ses-<label>]<tags>_<suffix>.<ext>
HasModalityForm(path) ==
    LET parts == Split(path, "/")
        n == Len(parts)
        pieces == Split(parts[n], "_")
        last == pieces[Len(pieces)]
    IN /\ n \in {4, 5}
       /\ parts[1] = <<>>
       /\ IsLabelled(parts[2], "sub-")
       /\ n = 5 => IsLabelled(parts[3], "ses-")
       /\ parts[n - 1] \in {<<"anat">>, <<"dwi">>, <<"func">>, <<"beh">>, <<"fmap">>}
       /\ Len(pieces) >= 2
       /\ \A k \in 1..Len(pieces) : pieces[k] # <<>>
       /\ pieces[1] = parts[2]
       /\ IF n = 5
          THEN pieces[2] = parts[3]
          ELSE \A k \in 1..Len(pieces) : pieces[k][1] # "ses-"
       /\ Len(last) >= 3
       /\ last[1] \in Alnum
       /\ last[2] = "."

\* conditionalMatch accepts the path for the expression only with the captures of the
\* session directory (2) and of the session token (3) both there or both not
BothOrNone(expression, path) ==
    LET match == Exec(expression, path)
    IN conditionalMatch(expression, path) => (match.caps[2].def <=> match.caps[3].def)

(* C20: conditionalMatch accepts a match only if the capture of the session
   directory (group 2) and the capture of the session token of the file name
   (group 3) are both present or both absent; hence every path isAnat, isDWI,
   isFunc, isBehavioral, isCont or isFieldMap accepts has exactly the form
   /sub-<label>/[ses-<label>/]<modality-dir>/sub-<label>[_ses-<label>]<optional tags>_<suffix>.<ext>,
   the session token of the file name being there exactly when the session
   directory is. *)
C20_ConditionalMatchBothOrNone ==
    tCls # Unset =>
        /\ BothOrNone(anatRe, tPath)
        /\ BothOrNone(dwiRe, tPath)
        /\ BothOrNone(funcRe, tPath)
        /\ BothOrNone(funcBeh, tPath)
        /\ BothOrNone(contRe, tPath)
        /\ BothOrNone(fieldMapRe, tPath)
        /\ \A p \in ModalityPredicates : tCls[1][p] => HasModalityForm(tPath)

-----------------------------------------------------------------------------
(* Claims about readFile, under SpecRead *)

\* readFile has run to its end for the promise: the read called back and no
\* nextTick callback for the promise is waiting
ReadOver(p) ==
    /\ promise[p].pc = "returned"
    /\ \A k \in 1..Len(nextTick) : nextTick[k].p # p

\* the underlying read of the promise failed
ReadFailed(p) ==
    \/ promise[p].err = Some(TRUE)
    \/ promise[p].result \in {Some("null"), Some("empty")}

(* C16: a file that cannot be read yields the unreadable-file issue and never
   contents: whenever the underlying read fails (fs.readFile reports an error
   in Node, the reader finishes with no result in the browser) the promise is
   rejected with an Issue, and a promise is resolved only with the data of a
   read that succeeded. *)
C16_UnreadableFileRejected ==
    \A p \in DOMAIN promise :
        /\ (ReadOver(p) /\ ReadFailed(p)) =>
              /\ promise[p].state = "rejected"
              /\ promise[p].value[1].is = "Issue"
        /\ promise[p].state = "fulfilled" =>
              /\ promise[p].value[1].is = "string"
              /\ ~ReadFailed(p)

(* C21: the promise of readFile settles at most once and in the right way: in
   the Node branch, whenever testFile reports an issue the promise is rejected
   with that issue and never resolved with file data, whatever the order in
   which the scheduled reject and the completion of fs.readFile run; and after
   testFile has reported an issue no read of the file is started. *)
C21_IssueRejectsAndNoRead ==
    \A p \in DOMAIN promise :
        LET pr == promise[p]
        IN /\ pr.state = "pending" <=> pr.value = Unset
           /\ (pr.fs /\ pr.issue # Unset) =>
                /\ pr.state # "fulfilled"
                /\ pr.state = "rejected" => pr.value = pr.issue
                /\ ReadOver(p) => pr.state = "rejected"
                /\ pr.reads = 0

-----------------------------------------------------------------------------
(* Claims about results over several runs, under SpecSeq *)

\* the groups of a delivered result as their holder reads them now: every group is the
\* entry of utils.issues for its code, whose files list is the one attached last
Seen(groups) ==
    [k \in 1..Len(groups) |->
        [groups[k] EXCEPT !.files =
            issueTable[CHOOSE c \in DOMAIN issueTable : ToString(c) = groups[k].code]]]

(* C22: a result already delivered is not changed by a later run: after
   start() has called back with (errors, warnings, summary) for one dataset,
   running start() again, sequentially, on another dataset leaves the code
   groups and the file lists of the first result unchanged, and the second
   result holds no issue of the first run. *)
C22_DeliveredResultUnchanged ==
    \A r \in DOMAIN run :
        Delivered(run[r]) =>
            LET res == run[r].result[1]
            IN /\ Seen(res.errors) = res.errors
               /\ Seen(res.warnings) = res.warnings
               /\ \A issue \in BagToSet(ResultIssues(res)) :
                     CopiesIn(issue, ResultIssues(res)) = CopiesIn(issue, run[r].pushed)

=============================================================================
